---- MODULE Spec2Model ----
(***************************************************************************)
(* The issue-resolution pipeline of agent.py (main and the stages it       *)
(* calls) together with the PRManager of pr_manager.py, as one sequential  *)
(* state machine.  The generative oracle, the syntax checker's verdict on  *)
(* a generated text, the reviewer's verdict, the sandboxed test run, git   *)
(* and the gh command line are the environment: every outcome they can     *)
(* give is a nondeterministic choice of the step that calls them.          *)
(***************************************************************************)
EXTENDS Integers, Sequences, FiniteSets, TLC

(***************************************************************************)
(* Program constants.                                                      *)
(***************************************************************************)
MAX_REVIEW_ITERATIONS == 3

max_repairs == 3

GEN_ATTEMPTS == 3

ENABLE_SANDBOX == TRUE

(***************************************************************************)
(* Bounds of the model.                                                    *)
(***************************************************************************)
\* Lines of the planning oracle's response that are enumerated.
MaxPlanLines == 2

\* Cap of the counters of rounds (generation rounds, reviews, test runs).
\* No run of the program reaches it; a loop that failed to make progress
\* would stop at the cap in a state that is not terminal.
MaxRounds == 8

(***************************************************************************)
(* Paths.  Paths ending in .py are checked by PythonStrategy.check_syntax; *)
(* any other path passes the check trivially.                              *)
(***************************************************************************)
PyPaths == {"a.py", "b.py"}

OtherPaths == {"n.md"}

Paths == PyPaths \cup OtherPaths

\* The file lists get_file_tree can return when it returns normally.
FileTrees == {<<>>, <<"a.py", "b.py">>}

(***************************************************************************)
(* A text is identified by the invocation of the generation stage (gen)    *)
(* and the attempt that produced it; valid says whether ast.parse accepts  *)
(* it.  Git keeps, per path, the stamp of the text: its gen, which names   *)
(* the text because an invocation writes one text to one path.             *)
(***************************************************************************)
Original == [gen |-> 0, attempt |-> 0, valid |-> TRUE]

Absent == [gen |-> -1, attempt |-> 0, valid |-> FALSE]

Stamp(content) == content.gen

\* The text of a review or of a test log is identified by its number.
NoFeedback == [text |-> 0]

\* The stages that call the oracle once per invocation; the generation stage
\* calls it once per attempt, which attempt and genLog record.
Stages == {"analyze", "plan", "review", "pr_content"}

Feedback(n) == [text |-> n]

VARIABLES
    pc,                 \* position of main
    extDefined,         \* whether CODE_EXTENSIONS / TEST_EXTENSIONS are bound
    github_issue_number,\* main: github_issue_number
    issue_data,         \* main: issue_data
    branch,             \* the repository's branch of the run: created, checked out
    file_tree,          \* main: file_tree
    files_to_modify,    \* main: files_to_modify
    files_to_create,    \* main: files_to_create
    review_iteration,   \* main: review_iteration
    review_approved,    \* main: review_approved
    last_review_result, \* main: last_review_result (id of the review text)
    repair_count,       \* main: repair_count
    test_passed,        \* main: test_passed
    test_log,           \* main: test_log (id of the log of the last Run)
    final_pr_body,      \* main: the review notes put in final_pr_body
    fileIdx,            \* index in files_to_modify + files_to_create of the file in work
    genMode,            \* "review" or "repair": the loop that invoked generation
    attempt,            \* apply_fix / create_new_file: oracle calls of this invocation
    code,               \* apply_fix / create_new_file: code
    genLog,             \* the attempts of this invocation, in order
    genRound,           \* number of generation rounds started so far
    gen,                \* number of invocations of the generation stage so far
    tree,               \* working tree: path -> content
    reviewed,           \* the texts the last review examined: path -> stamp
    head,               \* local HEAD commit: path -> stamp
    remote,             \* the remote branch: path -> stamp
    branchPushed,       \* whether the branch exists on origin
    staged,             \* what the last commit_and_push call staged: path -> stamp
    commitCalls,        \* commit_and_push calls, in order: [phase, result]
    commits,            \* commits created
    pr_number,          \* PRManager.pr_number (0 is None)
    pr_url,             \* PRManager.pr_url ("" is None)
    is_wip,             \* PRManager.is_wip
    initial_body,       \* PRManager.initial_body
    prOpen,             \* whether gh pr create succeeded
    prBody,             \* the PR's description on the host
    prComments,         \* number of comments on the PR
    progress,           \* the last update_progress call: [phase, detail, posted]
    llmCalls,           \* oracle calls of the stages other than generation: stage -> count
    reviewLog,          \* verdicts of the reviewer, in order
    testRuns,           \* run_tests_in_sandbox calls
    repairRounds,       \* repair rounds completed
    outcome,            \* how the run ended
    lastCall,           \* PRManager used on its own: the last method call
    fnCall,             \* a function applied on its own: the function and its arguments
    fnResult            \* ... and what it returned

vars == <<pc, extDefined, github_issue_number, issue_data, branch, file_tree, files_to_modify, files_to_create,
          review_iteration, review_approved, last_review_result, repair_count,
          test_passed, test_log, final_pr_body, fileIdx, genMode, attempt, code, genLog,
          genRound, gen, tree, reviewed, head, remote, branchPushed, staged,
          commitCalls,
          commits, pr_number, pr_url, is_wip, initial_body, prOpen, prBody,
          prComments, progress, llmCalls, reviewLog, testRuns, repairRounds,
          outcome, lastCall, fnCall, fnResult>>

\* What main reads at its start, and the branch it makes from it.
inputVars == <<github_issue_number, issue_data, branch>>

mainVars == <<file_tree, files_to_modify, files_to_create, review_iteration,
              review_approved, last_review_result, repair_count, test_passed,
              test_log, final_pr_body>>

genVars == <<fileIdx, genMode, attempt, code, genLog, genRound, gen>>

gitVars == <<tree, reviewed, head, remote, branchPushed, staged, commitCalls,
             commits>>

prVars == <<pr_number, pr_url, is_wip, initial_body, prOpen, prBody,
            prComments, progress>>

histVars == <<llmCalls, reviewLog, testRuns, repairRounds>>

\* The variables of the object and function specifications below; a run of
\* main leaves them alone.
objVars == <<lastCall, fnCall, fnResult>>

\* No method was called, no function applied.
NoCall == [op |-> "none", result |-> "none", gh |-> "none", push |-> FALSE,
           commit |-> FALSE, staged |-> FALSE]

NoFn == [fn |-> "none"]

Pending == [done |-> FALSE]

\* main's variables at the start of a run, the repository and the PRManager
\* main constructs.
PipelineInit ==
    /\ pc = "input"
    /\ extDefined \in BOOLEAN
    /\ github_issue_number = "unset"
    /\ issue_data = "unset"
    /\ branch = "none"
    /\ file_tree = <<>>
    /\ files_to_modify = <<>>
    /\ files_to_create = <<>>
    /\ review_iteration = 0
    /\ review_approved = FALSE
    /\ last_review_result = NoFeedback
    /\ repair_count = 0
    /\ test_passed = FALSE
    /\ test_log = NoFeedback
    /\ final_pr_body = [built |-> FALSE, review_notes |-> NoFeedback]
    /\ fileIdx = 0
    /\ genMode = "none"
    /\ attempt = 0
    /\ code = Absent
    /\ genLog = <<>>
    /\ genRound = 0
    /\ gen = 0
    /\ tree = [p \in Paths |-> IF p \in PyPaths THEN Original ELSE Absent]
    /\ reviewed = [p \in Paths |-> Stamp(Absent)]
    /\ head = [p \in Paths |-> IF p \in PyPaths THEN Stamp(Original) ELSE Stamp(Absent)]
    /\ remote = [p \in Paths |-> Stamp(Absent)]
    /\ branchPushed = FALSE
    /\ staged = [p \in Paths |-> Stamp(Absent)]
    /\ commitCalls = <<>>
    /\ commits = 0
    /\ pr_number = 0
    /\ pr_url = ""
    /\ is_wip = TRUE
    /\ initial_body = "None"
    /\ prOpen = FALSE
    /\ prBody = "none"
    /\ prComments = 0
    /\ progress = [phase |-> "none", detail |-> NoFeedback, posted |-> FALSE]
    /\ llmCalls = [stage \in Stages |-> 0]
    /\ reviewLog = <<>>
    /\ testRuns = 0
    /\ repairRounds = 0
    /\ outcome = "running"

Init ==
    /\ PipelineInit
    /\ lastCall = NoCall
    /\ fnCall = NoFn
    /\ fnResult = Pending

(***************************************************************************)
(* Helpers.                                                                *)
(***************************************************************************)
Range(s) == {s[i] : i \in 1..Len(s)}

\* A variant of the lists below that may leave elements out.
ListsWithGaps(S) == UNION {[1..k -> S] : k \in 0..Cardinality(S)}

\* list(set(xs)): the elements of S in some order, none repeated.
ListsOf(S) ==
    {s \in [1..Cardinality(S) -> S] : Range(s) = S}

Terminal == {"exit0", "exit1", "done", "crashed"}

\* sys.exit(1) after the cause was printed.
Exit1(cause) ==
    /\ pc' = "exit1"
    /\ outcome' = cause

\* An exception no handler of main catches.
Crash(exception) ==
    /\ pc' = "crashed"
    /\ outcome' = exception

(***************************************************************************)
(* PRManager (pr_manager.py).                                              *)
(***************************************************************************)
\* A variant of the guard that lets every call through.
PrNumberMissingNever(number) == FALSE

\* "if not self.pr_number" (pr_manager.py 99, 129, 200).
PrNumberMissing(number) == number = 0

\* A variant of add_pr_comment that writes the comment into the description.
AddPrCommentIntoBody(ok) ==
    /\ prComments' = prComments
    /\ prBody' = IF ~PrNumberMissing(pr_number) /\ ok THEN "progress" ELSE prBody
    /\ UNCHANGED <<pr_number, pr_url, is_wip, initial_body, prOpen>>

\* add_pr_comment: needs a PR number; ok is the outcome of gh pr comment.
AddPrComment(ok) ==
    /\ prComments' = IF ~PrNumberMissing(pr_number) /\ ok THEN prComments + 1 ELSE prComments
    /\ UNCHANGED <<pr_number, pr_url, is_wip, initial_body, prOpen, prBody>>

\* The outcomes of gh pr comment that a run of main is followed through.
GhCommentOutcomes == {TRUE}

\* update_progress builds a comment and returns add_pr_comment's result.
UpdateProgress(phase, detail, ok) ==
    /\ AddPrComment(ok)
    /\ progress' = [phase |-> phase, detail |-> detail,
                    posted |-> (~PrNumberMissing(pr_number) /\ ok)]

\* The index after repo.index.add(files): the tree's content for files.
StageFiles(files) ==
    [p \in Paths |-> IF p \in Range(files) THEN Stamp(tree[p]) ELSE head[p]]

\* A variant of the test in which the index always differs.
NothingToCommitNever(index, headTree) == FALSE

\* pr_manager.py 168: "if not self.repo.index.diff('HEAD')".  The repository
\* has a HEAD commit (main has checked out a branch of it), so the diff does
\* not raise.
NothingToCommit(index, headTree) == index = headTree

\* What a commit_and_push call does with the index it staged.  out is what
\* git does:
\*   "add_error"   repo.index.add raises            -> False, nothing committed
\*   "push_error"  the push raises after the commit -> False
\*   "ok"          everything succeeds              -> True
\* When the index does not differ from HEAD the call returns True early.
CommitAndPushSteps(index, out) ==
    IF out = "add_error"
    THEN [result |-> FALSE, staged |-> FALSE, commit |-> FALSE, push |-> FALSE]
    ELSE IF NothingToCommit(index, head)
    THEN [result |-> TRUE, staged |-> TRUE, commit |-> FALSE, push |-> FALSE]
    ELSE [result |-> (out = "ok"), staged |-> TRUE, commit |-> TRUE, push |-> TRUE]

\* commit_and_push(files, message).
CommitAndPush(files, phase, out) ==
    LET index == StageFiles(files)
        r == CommitAndPushSteps(index, out)
    IN  /\ staged' = [p \in Paths |->
                        IF p \in Range(files) THEN Stamp(tree[p]) ELSE Stamp(Absent)]
        /\ commitCalls' = Append(commitCalls, [phase |-> phase, result |-> r.result])
        /\ head' = IF r.commit THEN index ELSE head
        /\ commits' = IF r.commit THEN commits + 1 ELSE commits
        /\ remote' = IF r.push /\ r.result THEN index ELSE remote
        /\ UNCHANGED <<tree, reviewed, branchPushed>>

CommitOutcomes == {"ok", "add_error", "push_error"}

\* main does not read commit_and_push's result: its run is followed through
\* the outcome in which git works.
MainCommitOutcomes == {"ok"}

\* One more oracle call by stage.
Called(stage) == [llmCalls EXCEPT ![stage] = @ + 1]

(***************************************************************************)
(* main, up to the plan (agent.py 619-664).                                *)
(***************************************************************************)
\* What the user types at the prompt, stripped: nothing, a word, a number.
IssueNumbers == {"", "abc", "7"}

\* str.isdigit() of the issue numbers above.
IsDigit(number) == number = "7"

\* A variant of the test below that lets a missing issue through.
NotIssueDataNever(data) == FALSE

\* agent.py 633: "if not issue_data".
NotIssueData(data) == data = "None"

\* input(...).strip(); an empty issue number is fatal.
ReadIssueNumber ==
    /\ pc = "input"
    /\ \E number \in IssueNumbers :
         /\ github_issue_number' = number
         /\ IF number = "" THEN Exit1("Issue number is required")
            ELSE pc' = "open_repo" /\ UNCHANGED outcome
    /\ UNCHANGED <<objVars, extDefined, issue_data, branch, mainVars, genVars, gitVars,
                   prVars, histVars>>

\* Repo(REPO_PATH)
OpenRepo ==
    /\ pc = "open_repo"
    /\ \E valid \in BOOLEAN :
         IF valid THEN pc' = "get_issue" /\ UNCHANGED outcome
         ELSE Exit1("not a valid git repository")
    /\ UNCHANGED <<objVars, extDefined, inputVars, mainVars, genVars, gitVars, prVars, histVars>>

\* get_issue_body: None for a non-numeric number (gh is not run), a failing
\* gh, a missing gh; otherwise what gh printed.
GetIssueBodyResults(number) ==
    IF IsDigit(number)
    THEN {"ok", "Error fetching issue", "gh command not found"}
    ELSE {"Invalid issue number"}

\* agent.py 632-633: issue_data = get_issue_body(...); a missing issue is
\* fatal.
GetIssueBody ==
    /\ pc = "get_issue"
    /\ \E r \in GetIssueBodyResults(github_issue_number) :
         /\ issue_data' = IF r = "ok" THEN "json" ELSE "None"
         /\ IF NotIssueData(issue_data')
            THEN Exit1(r)
            ELSE pc' = "create_branch" /\ UNCHANGED outcome
    /\ UNCHANGED <<objVars, extDefined, github_issue_number, branch, mainVars, genVars,
                   gitVars, prVars, histVars>>

\* create_branch: the branch fix/issue-N is checked out, created first when
\* the repository has none of that name; any exception is caught by main and
\* is fatal, with the branch created or not.
CreateBranch ==
    /\ pc = "create_branch"
    /\ \E r \in {"ok", "create raises", "checkout raises"} :
         /\ branch' = CASE r = "ok" -> "checked out"
                         [] r = "create raises" -> "none"
                         [] r = "checkout raises" -> "created"
         /\ IF r = "ok" THEN pc' = "file_tree" /\ UNCHANGED outcome
            ELSE Exit1("Error creating branch")
    /\ UNCHANGED <<objVars, extDefined, github_issue_number, issue_data, mainVars,
                   genVars, gitVars, prVars, histVars>>

\* get_file_tree.  lsOk: git ls-files succeeded; lsLines: it printed at least
\* one line; walkFiles: the fallback walk meets a file outside .git; ft: the
\* files that pass the extension filter.  Reading CODE_EXTENSIONS or
\* TEST_EXTENSIONS raises NameError when the name is not bound: inside the
\* try the handler catches it and falls back, in the handler it propagates.
GetFileTreeResult(lsOk, lsLines, walkFiles, ft) ==
    IF lsOk /\ ~lsLines THEN [raised |-> FALSE, files |-> <<>>]
    ELSE IF lsOk /\ extDefined THEN [raised |-> FALSE, files |-> ft]
    ELSE IF ~walkFiles THEN [raised |-> FALSE, files |-> <<>>]
    ELSE IF extDefined THEN [raised |-> FALSE, files |-> ft]
    ELSE [raised |-> TRUE, files |-> <<>>]

GetFileTree ==
    /\ pc = "file_tree"
    /\ \E lsOk \in BOOLEAN, lsLines \in BOOLEAN, walkFiles \in BOOLEAN,
          ft \in FileTrees :
         LET r == GetFileTreeResult(lsOk, lsLines, walkFiles, ft)
         IN  IF r.raised
             THEN Crash("NameError") /\ UNCHANGED file_tree
             ELSE /\ pc' = "analyze"
                  /\ file_tree' = r.files
                  /\ UNCHANGED outcome
    /\ UNCHANGED <<objVars, extDefined, inputVars, files_to_modify, files_to_create,
                   review_iteration, review_approved, last_review_result,
                   repair_count, test_passed, test_log, final_pr_body, genVars, gitVars,
                   prVars, histVars>>

\* analyze_codebase_structure: one oracle call unless no sample file was read.
AnalyzeCodebase ==
    /\ pc = "analyze"
    /\ \E readable \in BOOLEAN :
         llmCalls' = IF file_tree # <<>> /\ readable THEN Called("analyze") ELSE llmCalls
    /\ pc' = "plan"
    /\ UNCHANGED <<objVars, extDefined, inputVars, mainVars, genVars, gitVars, prVars, reviewLog,
                   testRuns, repairRounds, outcome>>

\* A line of the planning oracle's response: its prefix and the path after it.
PlanLines == [prefix : {"MODIFY:", "CREATE:", "FILE:", ""}, path : Paths]

PlanResponses == UNION {[1..n -> PlanLines] : n \in 0..MaxPlanLines}

\* agent.py 256-277: the paths appended to files_to_modify.
ModifyPaths(response, file_list) ==
    {response[i].path : i \in {j \in 1..Len(response) :
        /\ response[j].prefix \in {"MODIFY:", "FILE:"}
        /\ response[j].path \in Range(file_list)}}

\* agent.py 267-270: the paths appended to files_to_create.
CreatePaths(response) ==
    {response[i].path : i \in {j \in 1..Len(response) :
        response[j].prefix = "CREATE:"}}

\* plan_changes: no oracle call for an empty file list.
PlanChanges ==
    /\ pc = "plan"
    /\ IF file_tree = <<>>
       THEN /\ files_to_modify' = <<>>
            /\ files_to_create' = <<>>
            /\ UNCHANGED llmCalls
       ELSE /\ llmCalls' = Called("plan")
            /\ \E response \in PlanResponses :
                 /\ files_to_modify' \in ListsOf(ModifyPaths(response, file_tree))
                 /\ files_to_create' \in ListsOf(CreatePaths(response))
    /\ pc' = "check_plan"
    /\ UNCHANGED <<objVars, extDefined, inputVars, file_tree, review_iteration, review_approved,
                   last_review_result, repair_count, test_passed, test_log,
                   final_pr_body, genVars, gitVars, prVars, reviewLog, testRuns, repairRounds,
                   outcome>>

\* A variant of the test with the second "not" dropped.
PlanIsEmptyNotDropped(modify, create) == modify = <<>> /\ create # <<>>

\* The test of agent.py 662: "not files_to_modify and not files_to_create".
PlanIsEmpty(modify, create) == modify = <<>> /\ create = <<>>

\* agent.py 662-664: an empty plan ends the run with status 0.
CheckPlan ==
    /\ pc = "check_plan"
    /\ IF PlanIsEmpty(files_to_modify, files_to_create)
       THEN pc' = "exit0" /\ outcome' = "nothing to fix"
       ELSE pc' = "create_wip" /\ UNCHANGED outcome
    /\ UNCHANGED <<objVars, extDefined, inputVars, mainVars, genVars, gitVars, prVars, histVars>>

(***************************************************************************)
(* main: the work-in-progress PR and the context (agent.py 666-723).       *)
(***************************************************************************)
all_files == files_to_modify \o files_to_create

\* create_wip_pr(title, initial_body).  out is what git and gh do:
\*   "push_error"  the push of the branch raises: only CalledProcessError
\*                 is caught, so the exception leaves create_wip_pr and main
\*   "gh_error"    gh pr create fails (CalledProcessError)  -> False
\*   "ok"          gh prints a URL with /pull/<number>      -> True
\*   "ok_no_number" gh prints text without /pull/<number>   -> True
CreateWipPrOutcomes == {"push_error", "gh_error", "ok", "ok_no_number"}

\* What create_wip_pr(title, body) does to the object, the branch and the
\* host.  The host numbers its pull requests 1, 2.
CreateWipPrCall(body, out) ==
    /\ initial_body' = body
    /\ IF out = "push_error"
       THEN UNCHANGED <<remote, branchPushed, pr_url, pr_number, prOpen, prBody>>
       ELSE /\ remote' = head
            /\ branchPushed' = TRUE
            /\ IF out = "gh_error"
               THEN UNCHANGED <<pr_url, pr_number, prOpen, prBody>>
               ELSE /\ prOpen' = TRUE
                    /\ prBody' = body
                    /\ pr_url' = IF out = "ok_no_number" THEN "url"
                                 ELSE IF prOpen THEN "url/pull/2" ELSE "url/pull/1"
                    /\ pr_number' = IF out = "ok_no_number" THEN pr_number
                                    ELSE IF prOpen THEN 2 ELSE 1

\* agent.py 690-695: the result of create_wip_pr only selects a warning; an
\* exception of the push is caught nowhere.
CreateWipPr ==
    /\ pc = "create_wip"
    /\ \E out \in CreateWipPrOutcomes :
         /\ CreateWipPrCall("initial", out)
         /\ IF out = "push_error"
            THEN Crash("GitCommandError")
            ELSE pc' = "progress3" /\ UNCHANGED outcome
    /\ UNCHANGED <<objVars, extDefined, inputVars, mainVars, genVars, tree, reviewed, head, staged,
                   commitCalls, commits, is_wip, prComments, progress, histVars>>

\* update_progress("Phase 3: Gathering Context", ...)
Progress3 ==
    /\ pc = "progress3"
    /\ \E ok \in GhCommentOutcomes : UpdateProgress("Phase 3: Gathering Context", NoFeedback, ok)
    /\ pc' = "read_targets"
    /\ UNCHANGED <<objVars, extDefined, inputVars, mainVars, genVars, gitVars, histVars, outcome>>

\* agent.py 706-715: a target that cannot be read is fatal.
ReadTargets ==
    /\ pc = "read_targets"
    /\ \E ok \in BOOLEAN :
         IF ok \/ files_to_modify = <<>>
         THEN pc' = "progress4" /\ UNCHANGED outcome
         ELSE Exit1("Error reading target file")
    /\ UNCHANGED <<objVars, extDefined, inputVars, mainVars, genVars, gitVars, prVars, histVars>>

\* update_progress("Phase 4: Implementing Changes", ...); then
\* review_iteration = 0, review_approved = False.
Progress4 ==
    /\ pc = "progress4"
    /\ \E ok \in GhCommentOutcomes : UpdateProgress("Phase 4: Implementing Changes", NoFeedback, ok)
    /\ review_iteration' = 0
    /\ review_approved' = FALSE
    /\ pc' = "loop_head"
    /\ UNCHANGED <<objVars, extDefined, inputVars, file_tree, files_to_modify, files_to_create,
                   last_review_result, repair_count, test_passed, test_log,
                   final_pr_body, genVars, gitVars, histVars, outcome>>

(***************************************************************************)
(* The generation stage: apply_fix (agent.py 426-512) and create_new_file  *)
(* (agent.py 514-579).                                                     *)
(***************************************************************************)
\* PythonStrategy.check_syntax: only .py files are parsed.
CheckSyntax(content, filename) ==
    IF filename \notin PyPaths THEN TRUE ELSE content.valid

\* Variants of the exit of the attempt loop: one without the early return,
\* one that gives up one attempt early.
GenLoopNoEarlyReturn(is_valid, k) == k >= GEN_ATTEMPTS

GenLoopGivesUpEarly(is_valid, k) == is_valid \/ k >= GEN_ATTEMPTS - 1

\* A variant with a fourth attempt.
GenLoopOneMore(is_valid, k) == is_valid \/ k >= GEN_ATTEMPTS + 1

\* Whether the attempt loop ends after attempt k with verdict is_valid:
\* "if is_valid: return code" inside "for attempt in range(3)".
GenLoopEnds(is_valid, k) == is_valid \/ k >= GEN_ATTEMPTS

\* One pass of the attempt loop for filename: one oracle call, the cleaned
\* response becomes code, and the syntax check decides whether to return.
GenAttempt(filename, next) ==
    /\ \E valid \in BOOLEAN :
         LET k == attempt + 1
             content == [gen |-> gen, attempt |-> k, valid |-> valid]
         IN  /\ attempt' = k
             /\ code' = content
             /\ genLog' = Append(genLog, content)
             /\ pc' = IF GenLoopEnds(CheckSyntax(content, filename), k)
                      THEN next ELSE pc
    /\ UNCHANGED <<fileIdx, genMode, genRound, gen>>

\* Whether the file in work is handled by create_new_file in the review loop.
IsCreate(i) == i > Len(files_to_modify)

\* apply_fix, called by the review loop for a file to modify and by the
\* repair loop for every file.
ApplyFixAttempt ==
    /\ pc = "generate"
    /\ genMode = "repair" \/ ~IsCreate(fileIdx)
    /\ GenAttempt(all_files[fileIdx], IF genMode = "repair" THEN "repair_write" ELSE "write")
    /\ UNCHANGED <<objVars, extDefined, inputVars, mainVars, gitVars, prVars, histVars, outcome>>

\* create_new_file, called by the review loop for a file to create.
CreateNewFileAttempt ==
    /\ pc = "generate"
    /\ genMode = "review" /\ IsCreate(fileIdx)
    /\ GenAttempt(all_files[fileIdx], "write")
    /\ UNCHANGED <<objVars, extDefined, inputVars, mainVars, gitVars, prVars, histVars, outcome>>

\* The message check_syntax returns for a text that does not parse.
ErrorMsg(content) == [gen |-> content.gen, attempt |-> content.attempt]

\* apply_fix 493-509: every pass that starts with a syntax error in
\* chain_inputs appends one more "PREVIOUS ATTEMPT HAD SYNTAX ERROR:
\* {syntax_error}" section to the template, and every section is rendered
\* with the error chain_inputs holds, that of the last attempt.  log is the
\* attempts made so far, all of which failed the check.
ApplyFixSyntaxSections(log) == [i \in 1..Len(log) |-> ErrorMsg(log[Len(log)])]

\* create_new_file 527-576: chain_inputs["syntax_error"] is set after a
\* failed attempt, but the template (527-552) has no {syntax_error}
\* placeholder, so the prompt never shows it.
CreateNewFileSyntaxSections(log) == <<>>

\* A variant of the context below that is always empty.
TestContextNever(log) == ""

\* agent.py 864-872: test_context is the content of the test file the log
\* names, when identify_failing_test_file finds one and it can be read.
TestContext(log) ==
    IF log.kind = "exit non-zero in tests/test_a.py"
    THEN "FAILING TEST CODE: tests/test_a.py"
    ELSE ""

\* agent.py 892: test_error=f"{test_log}\n{test_context}"
TestError(log) == [log |-> log, context |-> TestContext(log)]

\* The call of the generation stage in work: the function and the feedback
\* arguments main passes (agent.py 743-752, 776-782, 886-894).  NoFeedback
\* is None; create_new_file has neither parameter.
GenerationCall ==
    IF genMode = "repair"
    THEN [fn |-> "apply_fix", filename |-> all_files[fileIdx],
          review_feedback |-> NoFeedback, test_error |-> TestError(test_log)]
    ELSE IF ~IsCreate(fileIdx)
    THEN [fn |-> "apply_fix", filename |-> all_files[fileIdx],
          review_feedback |-> IF review_iteration = 0 THEN NoFeedback
                              ELSE last_review_result,
          test_error |-> NoFeedback]
    ELSE [fn |-> "create_new_file", filename |-> all_files[fileIdx],
          review_feedback |-> NoFeedback, test_error |-> NoFeedback]

\* What the prompt of the next oracle call of that call shows of the
\* feedback: the review section, the test section, the syntax sections.
Prompt ==
    [review_feedback |-> GenerationCall.review_feedback,
     test_error |-> GenerationCall.test_error,
     syntax_errors |-> IF GenerationCall.fn = "apply_fix"
                       THEN ApplyFixSyntaxSections(genLog)
                       ELSE CreateNewFileSyntaxSections(genLog)]

(***************************************************************************)
(* main: the review-refactor loop (agent.py 725-839).                      *)
(***************************************************************************)
\* A variant of the loop condition without the iteration bound.
ReviewLoopUnbounded(iteration, approved) == ~approved

\* The loop condition of agent.py 728.
ReviewLoopContinues(iteration, approved) ==
    iteration < MAX_REVIEW_ITERATIONS /\ ~approved

\* Variants of the increment of agent.py 830: one that leaves the counter
\* where it is, one that counts a rejection twice.
NextReviewIterationStuck(iteration) == iteration

NextReviewIterationSkip(iteration) == iteration + 2

\* review_iteration += 1 on a rejection (agent.py 830).
NextReviewIteration(iteration) == iteration + 1

\* The loop head: start a generation round over the plan, or leave the loop
\* and announce phase 5.
ReviewLoopHead ==
    /\ pc = "loop_head"
    /\ IF ReviewLoopContinues(review_iteration, review_approved)
       THEN /\ genRound < MaxRounds
            /\ genRound' = genRound + 1
            /\ genMode' = "review"
            /\ fileIdx' = 1
            /\ gen' = gen + 1
            /\ attempt' = 0
            /\ genLog' = <<>>
            /\ pc' = "generate"
            /\ UNCHANGED code
       ELSE /\ pc' = "progress5"
            /\ UNCHANGED genVars
    /\ UNCHANGED <<objVars, extDefined, inputVars, mainVars, gitVars, prVars, histVars, outcome>>

\* agent.py 754-762 and 784-792: write the returned code; a failed write is fatal.
WriteFile ==
    /\ pc = "write"
    /\ \E ok \in BOOLEAN :
         IF ~ok
         THEN /\ Exit1("Error writing file")
              /\ UNCHANGED <<tree, fileIdx, gen, attempt, genLog>>
         ELSE /\ tree' = [tree EXCEPT ![all_files[fileIdx]] = code]
              /\ UNCHANGED outcome
              /\ IF fileIdx < Len(all_files)
                 THEN /\ fileIdx' = fileIdx + 1
                      /\ gen' = gen + 1
                      /\ attempt' = 0
                      /\ genLog' = <<>>
                      /\ pc' = "generate"
                 ELSE /\ pc' = "review_progress"
                      /\ UNCHANGED <<fileIdx, gen, attempt, genLog>>
    /\ UNCHANGED <<objVars, extDefined, inputVars, mainVars, genMode, code, genRound, reviewed,
                   head, remote, branchPushed, staged, commitCalls, commits,
                   prVars, histVars>>

\* update_progress("Phase 4.5: Code Review", ...)
ProgressReview ==
    /\ pc = "review_progress"
    /\ \E ok \in GhCommentOutcomes : UpdateProgress("Phase 4.5: Code Review", NoFeedback, ok)
    /\ pc' = "review"
    /\ UNCHANGED <<objVars, extDefined, inputVars, mainVars, genVars, gitVars, histVars, outcome>>

\* The reviewer's text: which markers it contains.
ReviewTexts == [rejected : BOOLEAN, approved : BOOLEAN]

\* A variant of the classification in which APPROVED has precedence.
ReviewApprovesApprovedFirst(text) ==
    IF text.approved THEN TRUE
    ELSE IF text.rejected THEN FALSE
    ELSE TRUE

\* self_review_changes' classification (agent.py 363-372).
ReviewApproves(text) ==
    IF text.rejected THEN FALSE
    ELSE IF text.approved THEN TRUE
    ELSE TRUE

\* A variant of the test that commits after the first rejection.
BoundReachedAtFirst(iteration) == iteration >= 1

\* agent.py 832: "if review_iteration >= MAX_REVIEW_ITERATIONS".
BoundReached(iteration) == iteration >= MAX_REVIEW_ITERATIONS

\* agent.py 802-839: re-read the plan's files (every one was written a moment
\* ago by this round), review them, then branch on the verdict.
SelfReview ==
    /\ pc = "review"
    /\ Len(reviewLog) < MaxRounds
    /\ \E text \in ReviewTexts :
         LET verdict == ReviewApproves(text)
         IN  /\ reviewed' = [p \in Paths |->
                    IF p \in Range(all_files) THEN Stamp(tree[p]) ELSE Stamp(Absent)]
             /\ llmCalls' = Called("review")
             /\ reviewLog' = Append(reviewLog, verdict)
             /\ review_approved' = verdict
             /\ last_review_result' = Feedback(Len(reviewLog) + 1)
             /\ IF verdict
                THEN /\ pc' = "commit_approved"
                     /\ UNCHANGED review_iteration
                ELSE /\ review_iteration' = NextReviewIteration(review_iteration)
                     /\ pc' = IF BoundReached(review_iteration')
                              THEN "commit_concerns" ELSE "loop_head"
    /\ UNCHANGED <<objVars, extDefined, inputVars, file_tree, files_to_modify, files_to_create,
                   repair_count, test_passed, test_log, final_pr_body, genVars, tree, head,
                   remote, branchPushed, staged, commitCalls, commits, prVars,
                   testRuns, repairRounds, outcome>>

\* agent.py 819-823: commit the approved changes.
CommitApproved ==
    /\ pc = "commit_approved"
    /\ \E out \in MainCommitOutcomes : CommitAndPush(all_files, "review approved", out)
    /\ pc' = "progress_approved"
    /\ UNCHANGED <<objVars, extDefined, inputVars, mainVars, genVars, prVars, histVars, outcome>>

\* agent.py 824-826: update_progress("Phase 4.5: Review Complete", ...); break.
ProgressApproved ==
    /\ pc = "progress_approved"
    /\ \E ok \in GhCommentOutcomes : UpdateProgress("Phase 4.5: Review Complete", NoFeedback, ok)
    /\ pc' = "progress5"
    /\ UNCHANGED <<objVars, extDefined, inputVars, mainVars, genVars, gitVars, histVars, outcome>>

\* agent.py 832-837: the bound is reached, commit anyway.
CommitConcerns ==
    /\ pc = "commit_concerns"
    /\ \E out \in MainCommitOutcomes : CommitAndPush(all_files, "review concerns noted", out)
    /\ pc' = "progress_concerns"
    /\ UNCHANGED <<objVars, extDefined, inputVars, mainVars, genVars, prVars, histVars, outcome>>

\* agent.py 838-839: update_progress("Phase 4.5: Review Incomplete", ...) with
\* the last review result in the description.
ProgressConcerns ==
    /\ pc = "progress_concerns"
    /\ \E ok \in GhCommentOutcomes :
         UpdateProgress("Phase 4.5: Review Incomplete", last_review_result, ok)
    /\ pc' = "loop_head"
    /\ UNCHANGED <<objVars, extDefined, inputVars, mainVars, genVars, gitVars, histVars, outcome>>

(***************************************************************************)
(* main: testing and repair (agent.py 841-920).                            *)
(***************************************************************************)
\* update_progress("Phase 5: Testing", ...); then max_repairs = 3,
\* repair_count = 0, test_passed = False.
Progress5 ==
    /\ pc = "progress5"
    /\ \E ok \in GhCommentOutcomes : UpdateProgress("Phase 5: Testing", NoFeedback, ok)
    /\ repair_count' = 0
    /\ test_passed' = FALSE
    /\ pc' = IF ENABLE_SANDBOX THEN "test_head" ELSE "test_skipped"
    /\ UNCHANGED <<objVars, extDefined, inputVars, file_tree, files_to_modify, files_to_create,
                   review_iteration, review_approved, last_review_result,
                   test_log, final_pr_body, genVars, gitVars, histVars, outcome>>

\* A variant of the loop condition that is off by one.
TestLoopOffByOne(count) == count <= max_repairs

\* The loop condition of agent.py 854.
TestLoopContinues(count) == count < max_repairs

\* repair_count += 1 at the end of a repair round (agent.py 902).
NextRepairCount(count) == count + 1

\* Whether the repair round that made the count is committed (agent.py 905).
RepairIsCommitted(count) == count < max_repairs

TestLoopHead ==
    /\ pc = "test_head"
    /\ pc' = IF TestLoopContinues(repair_count) THEN "run_tests" ELSE "test_done"
    /\ UNCHANGED <<objVars, extDefined, inputVars, mainVars, genVars, gitVars, prVars, histVars, outcome>>

\* run_tests_in_sandbox: exit code 0 passes; a non-zero exit code, a missing
\* docker executable and a timeout all return False with a log.  The output
\* of failed tests may name a test file (tests/test_a.py) that main can read.
TestResults == {"exit 0", "exit non-zero", "exit non-zero in tests/test_a.py",
                "Docker not found", "Timeout"}

\* A variant that fails a Run only when the tests ran and failed.
RunTestsPassedUnlessRan(result) == result # "exit non-zero"

RunTestsPassed(result) == result = "exit 0"

\* The log run_tests_in_sandbox returns: the output of the tests, or the
\* text "Docker not found" or "Timeout".
TestLog(n, result) == [text |-> n, kind |-> result]

\* agent.py 855-872: one Run; a pass leaves the loop, a failure opens a
\* repair round over the plan.
RunTests ==
    /\ pc = "run_tests"
    /\ testRuns < MaxRounds
    /\ genRound < MaxRounds
    /\ \E result \in TestResults :
         /\ test_passed' = RunTestsPassed(result)
         /\ testRuns' = testRuns + 1
         /\ test_log' = TestLog(testRuns + 1, result)
         /\ IF test_passed'
            THEN /\ pc' = "test_done"
                 /\ UNCHANGED genVars
            ELSE /\ pc' = "repair_read"
                 /\ genRound' = genRound + 1
                 /\ genMode' = "repair"
                 /\ fileIdx' = 1
                 /\ gen' = gen + 1
                 /\ attempt' = 0
                 /\ genLog' = <<>>
                 /\ UNCHANGED code
    /\ UNCHANGED <<objVars, extDefined, inputVars, file_tree, files_to_modify, files_to_create,
                   review_iteration, review_approved, last_review_result,
                   repair_count, final_pr_body, gitVars, prVars, llmCalls,
                   reviewLog, repairRounds, outcome>>

\* The step after the file in work of a repair round: the next file, or the
\* end of the round.
RepairNext ==
    IF fileIdx < Len(all_files)
    THEN /\ fileIdx' = fileIdx + 1
         /\ gen' = gen + 1
         /\ attempt' = 0
         /\ genLog' = <<>>
         /\ pc' = "repair_read"
    ELSE /\ pc' = "repair_end"
         /\ UNCHANGED <<fileIdx, gen, attempt, genLog>>

\* agent.py 876-881: read the current content, which the review loop wrote;
\* a file that cannot be read is skipped ("except: continue").
RepairRead ==
    /\ pc = "repair_read"
    /\ \E ok \in {TRUE} :
         IF ok
         THEN /\ pc' = "generate"
              /\ UNCHANGED <<fileIdx, gen, attempt, genLog>>
         ELSE RepairNext
    /\ UNCHANGED <<objVars, extDefined, inputVars, mainVars, genMode, code, genRound, gitVars,
                   prVars, histVars, outcome>>

\* agent.py 896-900: write the repaired code; the open is in no try block.
RepairWrite ==
    /\ pc = "repair_write"
    /\ \E ok \in BOOLEAN :
         IF ok
         THEN /\ tree' = [tree EXCEPT ![all_files[fileIdx]] = code]
              /\ RepairNext
              /\ UNCHANGED outcome
         ELSE /\ Crash("OSError")
              /\ UNCHANGED <<tree, fileIdx, gen, attempt, genLog>>
    /\ UNCHANGED <<objVars, extDefined, inputVars, mainVars, genMode, code, genRound, reviewed,
                   head, remote, branchPushed, staged, commitCalls, commits,
                   prVars, histVars>>

\* agent.py 902-907: count the round; commit it unless it was the last one.
RepairEnd ==
    /\ pc = "repair_end"
    /\ repairRounds < MaxRounds
    /\ repair_count' = NextRepairCount(repair_count)
    /\ repairRounds' = repairRounds + 1
    /\ pc' = IF RepairIsCommitted(repair_count') THEN "repair_commit" ELSE "test_head"
    /\ UNCHANGED <<objVars, extDefined, inputVars, file_tree, files_to_modify, files_to_create,
                   review_iteration, review_approved, last_review_result,
                   test_passed, test_log, final_pr_body, genVars, gitVars,
                   prVars, llmCalls, reviewLog, testRuns, outcome>>

RepairCommit ==
    /\ pc = "repair_commit"
    /\ \E out \in MainCommitOutcomes : CommitAndPush(all_files, "repair", out)
    /\ pc' = "test_head"
    /\ UNCHANGED <<objVars, extDefined, inputVars, mainVars, genVars, prVars, histVars, outcome>>

\* A variant of the report that ignores the result of the loop.
TestPhaseReportIgnoresResult(passed) == "Phase 5: Testing Complete"

\* agent.py 909-916: report the result of the loop on the PR.
TestPhaseReport(passed) ==
    IF passed THEN "Phase 5: Testing Complete"
    ELSE "Phase 5: Testing Complete (with failures)"

ProgressTestDone ==
    /\ pc = "test_done"
    /\ \E ok \in GhCommentOutcomes : UpdateProgress(TestPhaseReport(test_passed), NoFeedback, ok)
    /\ pc' = "finalize"
    /\ UNCHANGED <<objVars, extDefined, inputVars, mainVars, genVars, gitVars, histVars, outcome>>

(***************************************************************************)
(* main: finalization (agent.py 922-982).                                  *)
(***************************************************************************)
\* A variant of the review notes with the test inverted.
ReviewNotesInverted(approved, result) == IF approved THEN result ELSE NoFeedback

\* agent.py 948-951: the review notes of the final body.
ReviewNotes(approved, result) == IF ~approved THEN result ELSE NoFeedback

\* agent.py 928-967: the diff, generate_pr_content (one oracle call) and the
\* final body.  A failing git diff is caught by the handler of agent.py 978.
BuildFinalBody ==
    /\ pc = "finalize"
    /\ \E diffOk \in BOOLEAN :
         IF diffOk
         THEN /\ llmCalls' = Called("pr_content")
              /\ final_pr_body' = [built |-> TRUE,
                     review_notes |-> ReviewNotes(review_approved, last_review_result)]
              /\ pc' = "finalize_pr"
              /\ UNCHANGED outcome
         ELSE /\ pc' = "done"
              /\ outcome' = "PR remains in WIP state"
              /\ UNCHANGED <<llmCalls, final_pr_body>>
    /\ UNCHANGED <<objVars, extDefined, inputVars, file_tree, files_to_modify, files_to_create,
                   review_iteration, review_approved, last_review_result,
                   repair_count, test_passed, test_log, genVars, gitVars,
                   prVars, reviewLog, testRuns, repairRounds>>

\* PRManager.finalize_pr: False without a PR number; otherwise gh pr edit,
\* and is_wip becomes False when the edit succeeded.
FinalizePrResult(number, editOk) == ~PrNumberMissing(number) /\ editOk

\* A variant in which is_wip follows the result of the last edit.
WipAfterEditTracksResult(wip, editOk) == ~editOk

\* pr_manager.py 133-148: "self.is_wip = False" follows a successful edit; a
\* failed edit goes to the handler.
WipAfterEdit(wip, editOk) == IF editOk THEN FALSE ELSE wip

\* What finalize_pr(final_title, final_body) does to the object and the host.
FinalizePrCall(editOk) ==
    IF PrNumberMissing(pr_number)
    THEN UNCHANGED <<is_wip, prBody>>
    ELSE /\ is_wip' = WipAfterEdit(is_wip, editOk)
         /\ prBody' = IF editOk THEN "final" ELSE prBody

\* agent.py 969-976: finalize_pr's result is not read; success is announced.
FinalizePr ==
    /\ pc = "finalize_pr"
    /\ \E editOk \in BOOLEAN : FinalizePrCall(editOk)
    /\ pc' = "done"
    /\ outcome' = "SUCCESS! Pull request finalized."
    /\ UNCHANGED <<objVars, extDefined, inputVars, mainVars, genVars, gitVars, pr_number, pr_url,
                   initial_body, prOpen, prComments, progress, histVars>>

Next ==
    \/ ReadIssueNumber
    \/ OpenRepo
    \/ GetIssueBody
    \/ CreateBranch
    \/ GetFileTree
    \/ AnalyzeCodebase
    \/ PlanChanges
    \/ CheckPlan
    \/ CreateWipPr
    \/ Progress3
    \/ ReadTargets
    \/ Progress4
    \/ ReviewLoopHead
    \/ ApplyFixAttempt
    \/ CreateNewFileAttempt
    \/ WriteFile
    \/ ProgressReview
    \/ SelfReview
    \/ CommitApproved
    \/ ProgressApproved
    \/ CommitConcerns
    \/ ProgressConcerns
    \/ Progress5
    \/ TestLoopHead
    \/ RunTests
    \/ RepairRead
    \/ RepairWrite
    \/ RepairEnd
    \/ RepairCommit
    \/ ProgressTestDone
    \/ BuildFinalBody
    \/ FinalizePr

Spec == Init /\ [][Next]_vars

\* main is one sequential thread: whenever a step is possible, it is taken.
LiveSpec == Spec /\ WF_vars(Next)

(***************************************************************************)
(* PRManager on its own (pr_manager.py 17-274): after construction its     *)
(* methods are called in any order, with every outcome of git and gh; the  *)
(* caller changes files of the working tree between the calls.             *)
(***************************************************************************)
\* Calls of commit_and_push, and comments, that are followed.
MaxCalls == 2

\* The variables of main and of the stages it calls.
pipelineVars == <<pc, extDefined, inputVars, mainVars, genVars, histVars, outcome>>

\* The file lists handed to commit_and_push and the text the caller writes.
ObjFiles == {<<"a.py">>, <<"a.py", "n.md">>}

ObjText == [gen |-> 1, attempt |-> 1, valid |-> TRUE]

\* The body handed to create_wip_pr: the first call's, a later call's.
ObjBody == IF initial_body = "None" THEN "initial" ELSE "second"

\* The record of a method call: the value it returned ("raised" when it
\* ended by an exception), the gh command it issued, whether it pushed,
\* whether it created a commit, whether it staged its files.
Call(op, result, gh, push, commit, added) ==
    [op |-> op, result |-> result, gh |-> gh, push |-> push, commit |-> commit,
     staged |-> added]

PyBool(b) == IF b THEN "True" ELSE "False"

\* PRManager(repo, branch_name, issue_number) on a repository with a HEAD.
PRInit == Init /\ extDefined

\* The caller writes a.py; n.md never exists.
ObjWrite ==
    /\ tree' = [tree EXCEPT !["a.py"] = ObjText]
    /\ lastCall' = Call("write", "none", "none", FALSE, FALSE, FALSE)
    /\ UNCHANGED <<pipelineVars, fnCall, fnResult, reviewed, head, remote,
                   branchPushed, staged, commitCalls, commits, prVars>>

ObjCreateWipPr ==
    /\ \E out \in CreateWipPrOutcomes :
         /\ CreateWipPrCall(ObjBody, out)
         /\ lastCall' = Call("create_wip_pr",
                             IF out = "push_error" THEN "raised"
                             ELSE PyBool(out # "gh_error"),
                             IF out = "push_error" THEN "none" ELSE "create",
                             TRUE, FALSE, FALSE)
    /\ UNCHANGED <<pipelineVars, fnCall, fnResult, tree, reviewed, head, staged,
                   commitCalls, commits, is_wip, prComments, progress>>

\* What update_pr_body(new_body) does to the host (pr_manager.py 89-116).
UpdatePrBodyCall(ok) ==
    prBody' = IF ~PrNumberMissing(pr_number) /\ ok THEN "updated" ELSE prBody

ObjUpdatePrBody ==
    /\ \E ok \in BOOLEAN :
         /\ UpdatePrBodyCall(ok)
         /\ lastCall' = Call("update_pr_body",
                             PyBool(~PrNumberMissing(pr_number) /\ ok),
                             IF PrNumberMissing(pr_number) THEN "none" ELSE "edit",
                             FALSE, FALSE, FALSE)
    /\ UNCHANGED <<pipelineVars, fnCall, fnResult, gitVars, pr_number, pr_url,
                   is_wip, initial_body, prOpen, prComments, progress>>

ObjFinalizePr ==
    /\ \E editOk \in BOOLEAN :
         /\ FinalizePrCall(editOk)
         /\ lastCall' = Call("finalize_pr",
                             PyBool(FinalizePrResult(pr_number, editOk)),
                             IF PrNumberMissing(pr_number) THEN "none" ELSE "edit",
                             FALSE, FALSE, FALSE)
    /\ UNCHANGED <<pipelineVars, fnCall, fnResult, gitVars, pr_number, pr_url,
                   initial_body, prOpen, prComments, progress>>

\* repo.index.add raises for a path that does not exist.
ObjCommitAndPush ==
    /\ Len(commitCalls) < MaxCalls
    /\ \E files \in ObjFiles, out \in CommitOutcomes :
         /\ (\E p \in Range(files) : tree[p] = Absent) => out = "add_error"
         /\ CommitAndPush(files, "object", out)
         /\ LET r == CommitAndPushSteps(StageFiles(files), out)
            IN  lastCall' = Call("commit_and_push", PyBool(r.result), "none",
                                 r.push, r.commit, r.staged)
    /\ UNCHANGED <<pipelineVars, fnCall, fnResult, prVars>>

ObjAddPrComment ==
    /\ prComments < MaxCalls
    /\ \E ok \in BOOLEAN :
         /\ AddPrComment(ok)
         /\ lastCall' = Call("add_pr_comment",
                             PyBool(~PrNumberMissing(pr_number) /\ ok),
                             IF PrNumberMissing(pr_number) THEN "none" ELSE "comment",
                             FALSE, FALSE, FALSE)
    /\ UNCHANGED <<pipelineVars, fnCall, fnResult, gitVars, progress>>

ObjUpdateProgress ==
    /\ prComments < MaxCalls
    /\ \E ok \in BOOLEAN :
         /\ UpdateProgress("object", NoFeedback, ok)
         /\ lastCall' = Call("update_progress",
                             PyBool(~PrNumberMissing(pr_number) /\ ok),
                             IF PrNumberMissing(pr_number) THEN "none" ELSE "comment",
                             FALSE, FALSE, FALSE)
    /\ UNCHANGED <<pipelineVars, fnCall, fnResult, gitVars>>

PRNext ==
    \/ ObjWrite
    \/ ObjCreateWipPr
    \/ ObjUpdatePrBody
    \/ ObjFinalizePr
    \/ ObjCommitAndPush
    \/ ObjAddPrComment
    \/ ObjUpdateProgress

PRSpec == PRInit /\ [][PRNext]_vars

(***************************************************************************)
(* TokenManager (token_manager.py).  A text is modelled by its length in   *)
(* characters, which is all the methods read of it, and by the original    *)
(* length that a truncation marker at its end states (-1: no marker).      *)
(* File contents are texts that repr() leaves as they are (no quote,       *)
(* backslash or control character).                                        *)
(***************************************************************************)
CHARS_PER_TOKEN == 4

\* Entries of an exploration log, and files of a file-content mapping, that
\* are enumerated.
MaxLogEntries == 4

MaxFileEntries == 2

\* The budgets (max_tokens) and the lengths of texts that are enumerated.
Budgets == {10, 1000}

TextLens == {0, 400, 400000}

EntryLens == {40, 8000}

Text(n) == [len |-> n, orig |-> -1]

Min(a, b) == IF a <= b THEN a ELSE b

Max(a, b) == IF a >= b THEN a ELSE b

\* len(str(n)) for n >= 0.
RECURSIVE Digits(_)
Digits(n) == IF n < 10 THEN 1 ELSE 1 + Digits(n \div 10)

\* The sum of the lengths of the texts of a list.
RECURSIVE SumLen(_)
SumLen(texts) ==
    IF texts = <<>> THEN 0 ELSE Head(texts).len + SumLen(Tail(texts))

\* len('\n\n'.join(texts))
JoinLen(texts) ==
    IF texts = <<>> THEN 0 ELSE SumLen(texts) + 2 * (Len(texts) - 1)

\* estimate_tokens (token_manager.py 32-44), of a text and of a length.
estimate_tokens(text) ==
    IF text.len = 0 THEN 0 ELSE text.len \div CHARS_PER_TOKEN

EstimateLen(n) == estimate_tokens(Text(n))

\* The length of the marker "\n\n... [Truncated. Original length: <chars>
\* chars, ~<tokens> tokens]" (token_manager.py 67).
MarkerLen(chars, tokens) == 52 + Digits(chars) + Digits(tokens)

\* truncate_to_token_limit (token_manager.py 46-67).
truncate_to_token_limit(text, max_tokens) ==
    LET estimated_tokens == estimate_tokens(text)
        target_chars == max_tokens * CHARS_PER_TOKEN
    IN  IF estimated_tokens <= max_tokens THEN text
        ELSE [len |-> Min(text.len, target_chars)
                        + MarkerLen(text.len, estimated_tokens),
              orig |-> text.len]

\* self.token_budget (token_manager.py 26-30).
token_budget(max_tokens) ==
    [exploration_log |-> max_tokens \div 4,
     file_content |-> max_tokens \div 2,
     other |-> max_tokens \div 4]

\* summarize_exploration_log (token_manager.py 69-99): the last three
\* entries are kept in full, the older ones replaced by one line,
\* "Previous <n> tool executions (summarized)".
summarize_exploration_log(exploration_log, max_tokens) ==
    LET n == Len(exploration_log)
        total_tokens == EstimateLen(JoinLen(exploration_log))
        recent_entries == SubSeq(exploration_log, Max(1, n - 2), n)
        old_entries == Max(0, n - 3)
    IN  IF n = 0 THEN <<>>
        ELSE IF total_tokens <= token_budget(max_tokens).exploration_log
        THEN exploration_log
        ELSE <<Text(38 + Digits(old_entries))>> \o recent_entries

\* truncate_file_content (token_manager.py 101-132) with the default budget.
truncate_file_content(file_contents, max_tokens) ==
    LET budget == token_budget(max_tokens).file_content
        total_tokens == EstimateLen(JoinLen(file_contents))
    IN  IF total_tokens <= budget THEN file_contents
        ELSE LET tokens_per_file == budget \div Len(file_contents)
             IN  [i \in 1..Len(file_contents) |->
                    truncate_to_token_limit(file_contents[i], tokens_per_file)]

\* len(repr(text)): the quotes, and one backslash for each of the two
\* newlines of a truncation marker.
ReprLen(text) == text.len + 2 + (IF text.orig >= 0 THEN 2 ELSE 0)

RECURSIVE SumReprLen(_)
SumReprLen(texts) ==
    IF texts = <<>> THEN 0 ELSE ReprLen(Head(texts)) + SumReprLen(Tail(texts))

\* len(str(mapping)) for file names of four characters such as a.py:
\* "{'a.py': '...', 'b.py': '...'}".
DictStrLen(file_contents) ==
    IF file_contents = <<>> THEN 2
    ELSE 2 + SumReprLen(file_contents) + 8 * Len(file_contents)
           + 2 * (Len(file_contents) - 1)

\* get_context_stats (token_manager.py 134-170): total_tokens, the sum of
\* the estimates of the contexts, a list being joined and a mapping printed.
total_tokens(contexts) ==
    estimate_tokens(contexts.issue)
    + estimate_tokens(contexts.plan)
    + EstimateLen(JoinLen(contexts.exploration_log))
    + EstimateLen(DictStrLen(contexts.file_content))

\* token_manager.py 221-227: a context that is neither the exploration log
\* nor the file contents gets int(max_tokens * 0.1) tokens, which is
\* max_tokens // 10 for every max_tokens up to 200000.
TruncateOther(text, max_tokens) ==
    LET budget == max_tokens \div 10
    IN  IF estimate_tokens(text) > budget
        THEN truncate_to_token_limit(text, budget)
        ELSE text

\* auto_truncate_contexts (token_manager.py 185-233), called with two text
\* contexts, an exploration log and a file-content mapping.
auto_truncate_contexts(max_tokens, contexts) ==
    IF total_tokens(contexts) <= max_tokens THEN contexts
    ELSE [issue |-> TruncateOther(contexts.issue, max_tokens),
          plan |-> TruncateOther(contexts.plan, max_tokens),
          exploration_log |->
              summarize_exploration_log(contexts.exploration_log, max_tokens),
          file_content |->
              truncate_file_content(contexts.file_content, max_tokens)]

ListsUpTo(S, n) == UNION {[1..k -> S] : k \in 0..n}

ContextSets ==
    [issue : {Text(n) : n \in TextLens},
     plan : {Text(n) : n \in TextLens},
     exploration_log : ListsUpTo({Text(n) : n \in EntryLens}, MaxLogEntries),
     file_content : ListsUpTo({Text(n) : n \in EntryLens}, MaxFileEntries)]

TokenCalls ==
    [fn : {"auto_truncate_contexts"}, max_tokens : Budgets, contexts : ContextSets]

\* The result of a function that has returned.
Done(value) == [done |-> TRUE, value |-> value]

AutoTruncateContexts ==
    /\ fnCall.fn = "auto_truncate_contexts"
    /\ ~fnResult.done
    /\ fnResult' = Done(auto_truncate_contexts(fnCall.max_tokens, fnCall.contexts))
    /\ UNCHANGED <<pipelineVars, gitVars, prVars, lastCall, fnCall>>

\* summarize_exploration_log called on its own.
SummarizeCalls ==
    [fn : {"summarize_exploration_log"}, max_tokens : Budgets,
     exploration_log : ListsUpTo({Text(n) : n \in EntryLens}, MaxLogEntries)]

SummarizeExplorationLog ==
    /\ fnCall.fn = "summarize_exploration_log"
    /\ ~fnResult.done
    /\ fnResult' = Done(summarize_exploration_log(fnCall.exploration_log,
                                                  fnCall.max_tokens))
    /\ UNCHANGED <<pipelineVars, gitVars, prVars, lastCall, fnCall>>

(***************************************************************************)
(* The markers of a review (agent.py 360-367).  The reviewer's text is a   *)
(* list of words; the markers are sought in the upper-cased text.          *)
(***************************************************************************)
\* Words of a review text that are enumerated.
MaxWords == 2

ReviewWords == {"REJECTED", "Rejected", "APPROVED", "approved",
                "APPROVED_WITH_NOTES", "fine"}

\* str.upper() on a word.
Upper(word) ==
    CASE word = "Rejected" -> "REJECTED"
      [] word = "approved" -> "APPROVED"
      [] word = "fine" -> "FINE"
      [] OTHER -> word

\* "marker in word" for the words above.
Within(marker, word) ==
    \/ word = marker
    \/ marker = "APPROVED" /\ word = "APPROVED_WITH_NOTES"

\* "marker in text"
In(marker, text) == \E i \in 1..Len(text) : Within(marker, text[i])

\* review_upper = review_result.upper() and the two tests on it.
Markers(review_result) ==
    LET review_upper == [i \in 1..Len(review_result) |-> Upper(review_result[i])]
    IN  [rejected |-> In("REJECTED", review_upper),
         approved |-> In("APPROVED", review_upper)]

ReviewCalls ==
    [fn : {"self_review_changes"}, review_result : ListsUpTo(ReviewWords, MaxWords)]

\* The verdict self_review_changes returns for the reviewer's text.
SelfReviewChanges ==
    /\ fnCall.fn = "self_review_changes"
    /\ ~fnResult.done
    /\ fnResult' = Done(ReviewApproves(Markers(fnCall.review_result)))
    /\ UNCHANGED <<pipelineVars, gitVars, prVars, lastCall, fnCall>>

(***************************************************************************)
(* CodeContextManager.get_relevant_files (context_manager.py 237-298).     *)
(* The search backend ranks chunks of files; a chunk is its file's path    *)
(* and its distance to the query.                                          *)
(***************************************************************************)
MaxChunks == 3

MaxFilesArg == 2

Distances == 0..2

Chunks == [file_path : Paths, distance : Distances]

\* The backend: it raises, or returns a ranking, with or without the
\* 'distances' key.
Backends ==
    {[failed |-> TRUE, ranking |-> <<>>, distances |-> FALSE]}
    \cup [failed : {FALSE}, ranking : ListsUpTo(Chunks, MaxChunks), distances : BOOLEAN]

\* semantic_search: at most n_results chunks in the backend's order, with
\* distance None when the backend gave no distances; [] when it raises.
semantic_search(backend, n_results) ==
    IF backend.failed THEN <<>>
    ELSE [i \in 1..Min(n_results, Len(backend.ranking)) |->
            [file_path |-> backend.ranking[i].file_path,
             distance |-> backend.ranking[i].distance,
             none |-> ~backend.distances]]

\* "result['distance'] if result['distance'] else 0": None and 0.0 give 0.
RecordedDistance(result) ==
    IF result.none \/ result.distance = 0 THEN 0 ELSE result.distance

\* seen_files after the first k results, as its items in insertion order: a
\* path keeps the distance of its first result.
RECURSIVE SeenFiles(_, _)
SeenFiles(results, k) ==
    IF k = 0 THEN <<>>
    ELSE LET seen == SeenFiles(results, k - 1)
             r == results[k]
         IN  IF \E i \in 1..Len(seen) : seen[i].file_path = r.file_path
             THEN seen
             ELSE Append(seen, [file_path |-> r.file_path,
                                distance |-> RecordedDistance(r)])

\* One step of a stable sort: item goes behind every item that is not
\* farther than it.
InsertItem(sorted, item) ==
    LET n == Cardinality({i \in 1..Len(sorted) : sorted[i].distance <= item.distance})
    IN  SubSeq(sorted, 1, n) \o <<item>> \o SubSeq(sorted, n + 1, Len(sorted))

\* A variant that leaves the items in insertion order.
InsertionOrder(items) == items

\* sorted(seen_files.items(), key=lambda x: x[1]); sorted is stable.
RECURSIVE SortedByDistance(_)
SortedByDistance(items) ==
    IF items = <<>> THEN <<>>
    ELSE InsertItem(SortedByDistance(SubSeq(items, 1, Len(items) - 1)),
                    items[Len(items)])

\* get_relevant_files(query, max_files) against a backend.
get_relevant_files(backend, max_files) ==
    LET results == semantic_search(backend, max_files * 3)
        sorted_files == SortedByDistance(SeenFiles(results, Len(results)))
    IN  [i \in 1..Min(max_files, Len(sorted_files)) |-> sorted_files[i].file_path]

RelevantCalls ==
    [fn : {"get_relevant_files"}, backend : Backends, max_files : 0..MaxFilesArg]

GetRelevantFiles ==
    /\ fnCall.fn = "get_relevant_files"
    /\ ~fnResult.done
    /\ fnResult' = Done(get_relevant_files(fnCall.backend, fnCall.max_files))
    /\ UNCHANGED <<pipelineVars, gitVars, prVars, lastCall, fnCall>>

(***************************************************************************)
(* The parsing step of plan_changes (agent.py 246-292).  A text is a       *)
(* sequence of words and line breaks; a line is the sequence of its words. *)
(* "why" is prose; "FILES TO" followed by "MODIFY:" is the heading of the  *)
(* prompt's example.                                                       *)
(***************************************************************************)
MaxTextLines == 3

NewLine == "newline"

\* split_markers (agent.py 283).
split_markers == {"MODIFY:", "FILE:", "CREATE:"}

PathWords == {"a.py", "n.md", "'a.py'"}

\* The lines of a response of the planning oracle.
TextLines ==
    {<<>>, <<"why">>, <<"FILES TO", "MODIFY:">>, <<"CREATE:">>,
     <<"MODIFY:", "a.py", "why">>}
    \cup {<<prefix, word>> : prefix \in split_markers, word \in PathWords}

PlanTexts == ListsUpTo(TextLines, MaxTextLines)

\* '\n'.join(lines)
RECURSIVE JoinLines(_)
JoinLines(ls) ==
    IF ls = <<>> THEN <<>>
    ELSE IF Len(ls) = 1 THEN ls[1]
    ELSE ls[1] \o <<NewLine>> \o JoinLines(Tail(ls))

\* str.strip() of a text: the line breaks at its ends go.
RECURSIVE Strip(_)
Strip(text) ==
    IF text = <<>> THEN <<>>
    ELSE IF text[1] = NewLine THEN Strip(Tail(text))
    ELSE IF text[Len(text)] = NewLine THEN Strip(SubSeq(text, 1, Len(text) - 1))
    ELSE text

\* text.split('\n')
RECURSIVE SplitLines(_)
SplitLines(text) ==
    IF \A i \in 1..Len(text) : text[i] # NewLine THEN <<text>>
    ELSE LET i == CHOOSE k \in 1..Len(text) :
                      text[k] = NewLine /\ \A l \in 1..(k - 1) : text[l] # NewLine
         IN  <<SubSeq(text, 1, i - 1)>> \o SplitLines(SubSeq(text, i + 1, Len(text)))

\* clean_line.startswith(prefix)
StartsWith(clean_line, prefix) == clean_line # <<>> /\ clean_line[1] = prefix

\* .strip('"').strip("'").lstrip('- ') of a word.
CleanWord(word) == IF word = "'a.py'" THEN "a.py" ELSE word

\* What follows the prefix, cleaned: the path the line names.
NamedPath(clean_line) ==
    LET rest == Tail(clean_line)
    IN  IF Len(rest) = 1 THEN <<CleanWord(rest[1])>> ELSE rest

\* A variant of the test below that takes every path.
InNormalizedListAlways(path, file_list) == TRUE

\* "if clean_line in normalized_list"
InNormalizedList(path, file_list) == \E i \in 1..Len(file_list) : path = <<file_list[i]>>

\* agent.py 260-277: what the loop over the lines appends to files_to_modify
\* and to files_to_create.
AppendedToModify(ls, file_list) ==
    {NamedPath(ls[i]) : i \in {k \in 1..Len(ls) :
        /\ StartsWith(ls[k], "MODIFY:") \/ StartsWith(ls[k], "FILE:")
        /\ InNormalizedList(NamedPath(ls[k]), file_list)}}

AppendedToCreate(ls) ==
    {NamedPath(ls[i]) : i \in {k \in 1..Len(ls) : StartsWith(ls[k], "CREATE:")}}

\* agent.py 284-288: the least position at which full_response.find(marker)
\* finds a marker; past the end when there is none.
first_marker_pos(full_response) ==
    IF \E i \in 1..Len(full_response) : full_response[i] \in split_markers
    THEN CHOOSE i \in 1..Len(full_response) :
             /\ full_response[i] \in split_markers
             /\ \A k \in 1..(i - 1) : full_response[k] \notin split_markers
    ELSE Len(full_response) + 1

\* agent.py 280-290.
reasoning(full_response) ==
    IF first_marker_pos(full_response) <= Len(full_response)
    THEN Strip(SubSeq(full_response, 1, first_marker_pos(full_response) - 1))
    ELSE full_response

\* What the parsing step can return for a response: list(set(...)) gives the
\* paths in some order.
plan_changes(file_list, response) ==
    LET full_response == Strip(JoinLines(response))
        ls == SplitLines(full_response)
    IN  {[modify |-> mod, create |-> cre, reasoning |-> reasoning(full_response)] :
            mod \in ListsOf(AppendedToModify(ls, file_list)),
            cre \in ListsOf(AppendedToCreate(ls))}

PlanCalls ==
    [fn : {"plan_changes"}, file_list : FileTrees \ {<<>>}, response : PlanTexts]

\* The parsing step, executed twice on the same file list and response.
ParsePlan ==
    /\ fnCall.fn = "plan_changes"
    /\ ~fnResult.done
    /\ \E r \in plan_changes(fnCall.file_list, fnCall.response) :
         fnResult' = IF fnResult = Pending
                     THEN [done |-> FALSE, first |-> r]
                     ELSE Done(<<fnResult.first, r>>)
    /\ UNCHANGED <<pipelineVars, gitVars, prVars, lastCall, fnCall>>

(***************************************************************************)
(* CodeContextManager._chunk_code (context_manager.py 55-168).  A line of  *)
(* code is the empty line or one of a few lines of Python; a text is its   *)
(* lines joined by line breaks, as for the plan above.                     *)
(***************************************************************************)
MaxCodeLines == 4

CodeWords == {"import os", "def f():", "    return 1", "x = 1", "# note"}

CodeLines == {<<>>} \cup {<<w>> : w \in CodeWords}

\* The values tried for chunk_size, an int; index_codebase uses the default,
\* 1000.
ChunkSizes == {-1, 0, 9, 20}

\* len(word)
WordLen(word) ==
    CASE word = "import os" -> 9
      [] word = "def f():" -> 8
      [] word = "    return 1" -> 12
      [] word = "x = 1" -> 5
      [] word = "# note" -> 6
      [] word = NewLine -> 1

\* len(text)
RECURSIVE CharLen(_)
CharLen(text) ==
    IF text = <<>> THEN 0 ELSE WordLen(Head(text)) + CharLen(Tail(text))

\* len(line) - len(line.lstrip())
Indent(line) == IF line = <<"    return 1">> THEN 4 ELSE 0

\* stripped.startswith(('def ', 'class ', 'async def '))
IsDefinition(line) == line = <<"def f():">>

\* stripped.startswith(('@', '"', "'", '#'))
IsDecoratorOrString(line) == line = <<"# note">>

\* Variants of the size test: one that lets a chunk grow to twice the size,
\* and of the start of the chunk after a closed one: one that repeats the
\* closing line.
TooLargeTwice(current_chunk, chunk_size) ==
    CharLen(JoinLines(current_chunk)) > 2 * chunk_size + 1

NextStartRepeats(i) == i

\* "if len('\n'.join(current_chunk)) > chunk_size"
TooLarge(current_chunk, chunk_size) == CharLen(JoinLines(current_chunk)) > chunk_size

\* "current_start = i + 1"
NextStart(i) == i + 1

\* A chunk dictionary.
CodeChunk(current_chunk, start, end) ==
    [content |-> JoinLines(current_chunk), start_line |-> start, end_line |-> end]

\* The variables of the loops before the first line.
ChunkStart ==
    [chunks |-> <<>>, current_chunk |-> <<>>, current_start |-> 1,
     in_function_or_class |-> FALSE, indent_level |-> 0,
     has_seen_definition |-> FALSE]

\* Lines 126-133 and 151-158: close the chunk at line i when it is too
\* large.
SplitIfTooLarge(st, i, chunk_size) ==
    IF TooLarge(st.current_chunk, chunk_size)
    THEN [st EXCEPT !.chunks = Append(@, CodeChunk(st.current_chunk, st.current_start, i)),
                    !.current_chunk = <<>>,
                    !.current_start = NextStart(i)]
    ELSE st

\* Lines 84-123: the pass of the Python loop for line i, before the size
\* test.
PythonLine(st, line, i, chunk_size) ==
    IF IsDefinition(line)
    THEN [chunks |-> IF st.current_chunk # <<>>
                     THEN Append(st.chunks,
                                 CodeChunk(st.current_chunk, st.current_start, i - 1))
                     ELSE st.chunks,
          current_chunk |-> <<line>>,
          current_start |-> i,
          in_function_or_class |-> TRUE,
          indent_level |-> Indent(line),
          has_seen_definition |-> TRUE]
    ELSE IF st.in_function_or_class
    THEN [st EXCEPT !.current_chunk = Append(@, line),
                    !.in_function_or_class =
                        ~(/\ line # <<>>
                          /\ Indent(line) <= st.indent_level
                          /\ i > st.current_start
                          /\ ~IsDecoratorOrString(line))]
    ELSE LET appended == [st EXCEPT !.current_chunk = Append(@, line)]
         IN  IF /\ ~st.has_seen_definition
                /\ CharLen(JoinLines(appended.current_chunk)) > chunk_size \div 2
             THEN [appended EXCEPT
                      !.chunks = Append(@, CodeChunk(appended.current_chunk,
                                                     st.current_start, i)),
                      !.current_chunk = <<>>,
                      !.current_start = i + 1]
             ELSE appended

\* The loop over the first i lines.
RECURSIVE ChunkLoop(_, _, _, _)
ChunkLoop(lines, i, python, chunk_size) ==
    IF i = 0 THEN ChunkStart
    ELSE LET st == ChunkLoop(lines, i - 1, python, chunk_size)
             passed == IF python THEN PythonLine(st, lines[i], i, chunk_size)
                       ELSE [st EXCEPT !.current_chunk = Append(@, lines[i])]
         IN  SplitIfTooLarge(passed, i, chunk_size)

\* _chunk_code(code, filename, chunk_size); python is
\* filename.endswith('.py').
chunk_code(text, python, chunk_size) ==
    LET lines == SplitLines(text)
        st == ChunkLoop(lines, Len(lines), python, chunk_size)
        chunks == IF st.current_chunk # <<>>
                  THEN Append(st.chunks,
                              CodeChunk(st.current_chunk, st.current_start, Len(lines)))
                  ELSE st.chunks
    IN  IF chunks # <<>> THEN chunks
        ELSE <<[content |-> text, start_line |-> 1, end_line |-> Len(SplitLines(text))]>>

ChunkCalls ==
    [fn : {"_chunk_code"},
     code : {JoinLines(ls) : ls \in ListsUpTo(CodeLines, MaxCodeLines)},
     python : BOOLEAN,
     chunk_size : ChunkSizes]

ChunkCode ==
    /\ fnCall.fn = "_chunk_code"
    /\ ~fnResult.done
    /\ fnResult' = Done(chunk_code(fnCall.code, fnCall.python, fnCall.chunk_size))
    /\ UNCHANGED <<pipelineVars, gitVars, prVars, lastCall, fnCall>>

(***************************************************************************)
(* The functions applied on their own: the arguments are drawn at the      *)
(* start, one step applies the function.                                   *)
(***************************************************************************)
FnInit ==
    /\ PipelineInit
    /\ extDefined
    /\ lastCall = NoCall
    /\ \/ fnCall \in TokenCalls
       \/ fnCall \in ReviewCalls
       \/ fnCall \in RelevantCalls
       \/ fnCall \in PlanCalls
       \/ fnCall \in SummarizeCalls
       \/ fnCall \in ChunkCalls
    /\ fnResult = Pending

FnNext ==
    \/ AutoTruncateContexts
    \/ SelfReviewChanges
    \/ GetRelevantFiles
    \/ ParsePlan
    \/ SummarizeExplorationLog
    \/ ChunkCode

FnSpec == FnInit /\ [][FnNext]_vars

(***************************************************************************)
(* Properties.                                                             *)
(***************************************************************************)
\* The file in work.
file == all_files[fileIdx]

\* The positions at which the generation stage has just returned.
Returned == pc \in {"write", "repair_write"}

\* The positions of main up to and including the test of the plan.
UpToPlan == {"input", "open_repo", "get_issue", "create_branch", "file_tree",
             "analyze", "plan", "check_plan"}

\* The working tree as git sees it, restricted to the plan's files.
PlanStamps ==
    [p \in Paths |-> IF p \in Range(all_files) THEN Stamp(tree[p]) ELSE Stamp(Absent)]

\* The caps of the round counters bind in no reachable state.
CapsDoNotBind ==
    /\ genRound < MaxRounds
    /\ Len(reviewLog) < MaxRounds
    /\ testRuns < MaxRounds
    /\ repairRounds < MaxRounds

\* C1: whatever the oracles answer, a run of main reaches a terminal state
\* (the no-op exit, the end of finalization, a fatal exit); no loop of the
\* pipeline iterates without bound.
C1_Termination == <>(pc \in Terminal)

\* The longest run: three rejections, three failing test runs, finalization.
C1_Witness ==
    /\ pc = "done"
    /\ Len(reviewLog) = 3
    /\ ~review_approved
    /\ testRuns = 3
    /\ ~test_passed

\* C2: review_iteration never exceeds MAX_REVIEW_ITERATIONS, the reviewer is
\* invoked at most MAX_REVIEW_ITERATIONS times, and each invocation is
\* preceded by exactly one generation round over all files of the plan.
C2_ReviewBound ==
    /\ review_iteration <= 3
    /\ Len(reviewLog) <= 3
    /\ llmCalls["review"] = Len(reviewLog)
    /\ genMode = "review" => genRound \in {Len(reviewLog), Len(reviewLog) + 1}
    /\ pc = "loop_head" => genRound = Len(reviewLog)
    /\ pc = "review" =>
         /\ genRound = Len(reviewLog) + 1
         /\ gen = genRound * Len(all_files)
         /\ \A p \in Range(all_files) : Stamp(tree[p]) > gen - Len(all_files)

C2_Witness ==
    /\ review_iteration = 3
    /\ Len(reviewLog) = 3
    /\ genRound = 3
    /\ pc = "commit_concerns"

\* C3: repair_count never exceeds max_repairs and the sandboxed test runner is
\* invoked at most max_repairs times.
C3_RepairBound ==
    /\ repair_count <= 3
    /\ testRuns <= 3

C3_Witness ==
    /\ pc = "test_done"
    /\ repair_count = 3
    /\ testRuns = 3

\* The index of the first attempt of log that passes the syntax check of f.
FirstPassing(log, f) ==
    CHOOSE i \in 1..Len(log) :
        /\ CheckSyntax(log[i], f)
        /\ \A j \in 1..(i - 1) : ~CheckSyntax(log[j], f)

\* C4: an invocation of the generation stage issues at most 3 oracle calls;
\* when an attempt passes the syntax check, the invocation returns the text
\* of the first passing attempt after exactly that many oracle calls.
C4_FirstPassingAttempt ==
    /\ attempt <= 3
    /\ Len(genLog) = attempt
    /\ (Returned /\ \E i \in 1..Len(genLog) : CheckSyntax(genLog[i], file)) =>
         /\ code = genLog[FirstPassing(genLog, file)]
         /\ attempt = FirstPassing(genLog, file)

\* Attempts 1 and 2 fail, attempt 3 passes: its text is returned after 3 calls.
C4_Witness ==
    /\ pc = "write"
    /\ file \in PyPaths
    /\ Len(genLog) = 3
    /\ ~genLog[1].valid /\ ~genLog[2].valid /\ genLog[3].valid
    /\ code = genLog[3]
    /\ attempt = 3

\* Every attempt of log fails the syntax check of f.
AllFailed(log, f) == \A i \in 1..Len(log) : ~CheckSyntax(log[i], f)

\* C5: when all 3 attempts fail the syntax check the stage returns the text of
\* the third attempt and the run goes on: leaving the attempt loop leads to the
\* write of the returned text, never to an exit, the text is written unless
\* the write itself fails, and the review examines it like any other.
C5_BestEffort ==
    [][/\ (pc = "generate" /\ pc' # "generate") =>
            /\ pc' \in {"write", "repair_write"}
            /\ AllFailed(genLog', file) => (Len(genLog') = 3 /\ code' = genLog'[3])
       /\ (Returned /\ AllFailed(genLog, file) /\ pc' \notin {pc, "exit1", "crashed"}) =>
            /\ tree'[file] = code
            /\ pc' \in {"generate", "review_progress", "repair_read", "repair_end"}
       /\ (pc = "review" /\ pc' # "review") =>
            \A p \in Range(all_files) : reviewed'[p] = Stamp(tree[p])
      ]_vars

\* A text that failed all its syntax checks is in the tree, was examined by the
\* review and a test run took place on it.
C5_Witness ==
    /\ \E p \in Range(all_files) :
         /\ tree[p].attempt = 3
         /\ ~CheckSyntax(tree[p], p)
         /\ reviewed[p] = Stamp(tree[p])
    /\ testRuns = 1
    /\ pc = "test_done"

\* C6: when the reviewer rejects the first k rounds and approves the next one
\* (k < MAX_REVIEW_ITERATIONS), the approval is recorded with
\* review_iteration = k after k regeneration rounds (k + 1 generation
\* rounds), and no commit was made before it.
C6_ApprovalAfterRejections ==
    /\ pc = "commit_approved" =>
         LET k == Len(reviewLog) - 1
         IN  /\ reviewLog[k + 1]
             /\ \A i \in 1..k : ~reviewLog[i]
             /\ k < 3
             /\ review_iteration = k
             /\ genRound = k + 1
             /\ commitCalls = <<>>
             /\ commits = 0
    /\ (genMode \in {"none", "review"} /\ ~review_approved /\ review_iteration < 3) =>
         commitCalls = <<>>

\* Two rejections, then the approval.
C6_Witness ==
    /\ pc = "commit_approved"
    /\ reviewLog = <<FALSE, FALSE, TRUE>>
    /\ review_iteration = 2
    /\ genRound = 3

C8_AllRunsFail ==
    /\ (pc = "test_done" /\ ~test_passed) =>
         /\ testRuns = 3
         /\ repairRounds = 3
         /\ repair_count = 3
    /\ (pc \in {"finalize", "finalize_pr"} /\ ~test_passed) =>
         /\ testRuns = 3
         /\ repairRounds = 3
         /\ progress.phase = "Phase 5: Testing Complete (with failures)"
    /\ (pc \in {"finalize", "finalize_pr"} /\ test_passed) =>
         progress.phase = "Phase 5: Testing Complete"

C8_Witness ==
    /\ pc = "finalize_pr"
    /\ ~test_passed
    /\ testRuns = 3
    /\ repairRounds = 3
    /\ progress.phase = "Phase 5: Testing Complete (with failures)"

\* C9: with an empty candidate file list plan_changes returns two empty lists
\* and calls no oracle; and with an empty plan main goes no further than the
\* test of the plan: it exits with status 0, and no PR was created, no branch
\* pushed, no file written and no commit attempted.
C9_EmptyPlan ==
    /\ (pc = "check_plan" /\ file_tree = <<>>) =>
         /\ files_to_modify = <<>> /\ files_to_create = <<>>
         /\ llmCalls["plan"] = 0
    /\ (files_to_modify = <<>> /\ files_to_create = <<>>) =>
         /\ pc \in UpToPlan \cup {"exit0", "exit1", "crashed"}
         /\ ~prOpen
         /\ ~branchPushed
         /\ pr_number = 0
         /\ \A p \in Paths : Stamp(tree[p]) = head[p] /\ tree[p].gen <= 0
         /\ commitCalls = <<>>
         /\ commits = 0
    /\ pc = "exit0" => (files_to_modify = <<>> /\ files_to_create = <<>>)

C9_Witness ==
    /\ pc = "exit0"
    /\ file_tree = <<>>
    /\ llmCalls["plan"] = 0
    /\ outcome = "nothing to fix"

\* C10: the run always ends in one of three outcomes: the no-op exit, a
\* published PR, or a fatal abort that states its cause; never in an
\* unhandled exception.
C10_ThreeOutcomes ==
    pc \in Terminal =>
        \/ pc = "exit0"
        \/ pc = "exit1"
        \/ pc = "done" /\ ~is_wip /\ prBody = "final"


(***************************************************************************)
(* Properties of PRManager, checked under PRSpec.                          *)
(***************************************************************************)
\* C11: the lifecycle only moves forward: once is_wip is False, no method of
\* PRManager (create_wip_pr, update_pr_body, commit_and_push, add_pr_comment,
\* update_progress, finalize_pr) sets it back to True.
C11_LifecycleForward == [][~is_wip => ~is_wip']_vars

\* A finalize_pr call that failed on a PR that was finalized before.
C11_Witness ==
    /\ ~is_wip
    /\ lastCall.op = "finalize_pr"
    /\ lastCall.result = "False"

\* C12: without a PR number finalize_pr returns False, issues no PR edit and
\* leaves is_wip True; is_wip becomes False only by a finalize_pr call whose
\* edit succeeded, and a call that returns False leaves is_wip as it was.
C12_FinalizeNeedsOpenPr ==
    /\ [](pr_number = 0 => is_wip)
    /\ [][/\ (lastCall'.op = "finalize_pr" /\ pr_number = 0) =>
               /\ lastCall'.result = "False"
               /\ lastCall'.gh = "none"
               /\ is_wip' /\ prBody' = prBody
          /\ (is_wip /\ ~is_wip') =>
               /\ lastCall'.op = "finalize_pr"
               /\ lastCall'.result = "True"
               /\ lastCall'.gh = "edit"
          /\ (lastCall'.op = "finalize_pr" /\ lastCall'.result = "False") =>
               is_wip' = is_wip
         ]_vars

\* finalize_pr on a PR that gh created but whose number is not known.
C12_Witness ==
    /\ lastCall.op = "finalize_pr"
    /\ lastCall.result = "False"
    /\ pr_number = 0
    /\ prOpen
    /\ is_wip

\* C13: a create_wip_pr call when a PR is already open is a no-op: no push, no
\* PR creation, and pr_number, pr_url and initial_body stay as they were.
C13_SecondOpenIsNoOp ==
    [][(lastCall'.op = "create_wip_pr" /\ prOpen /\ pr_number # 0) =>
          /\ ~lastCall'.push
          /\ lastCall'.gh = "none"
          /\ UNCHANGED <<pr_number, pr_url, initial_body>>
      ]_vars

\* C14: update_progress leaves the PR's description, pr_number, pr_url, is_wip
\* and initial_body alone; it posts at most one comment, exactly when it
\* returns True, and without a PR number it issues no command, posts nothing
\* and returns False.
C14_ProgressOnlyComments ==
    [][lastCall'.op = "update_progress" =>
          /\ UNCHANGED <<prBody, prOpen, pr_number, pr_url, is_wip, initial_body>>
          /\ lastCall'.gh \in {"none", "comment"}
          /\ prComments' = IF lastCall'.result = "True" THEN prComments + 1
                           ELSE prComments
          /\ pr_number = 0 =>
               /\ lastCall'.result = "False"
               /\ lastCall'.gh = "none"
               /\ prComments' = prComments
      ]_vars

\* Two progress updates were posted on an open PR; its description is the
\* one it was created with.
C14_Witness ==
    /\ lastCall.op = "update_progress"
    /\ lastCall.result = "True"
    /\ prComments = 2
    /\ prBody = "initial"

\* The files a commit_and_push call staged are in HEAD as they are staged.
NoStagedChange ==
    \A p \in Paths : staged'[p] # Stamp(Absent) => staged'[p] = head[p]

\* C15: a commit_and_push call whose staged index does not differ from HEAD
\* returns True, creates no commit and pushes nothing.
C15_NothingToCommit ==
    [][(lastCall'.op = "commit_and_push" /\ lastCall'.staged /\ NoStagedChange) =>
          /\ lastCall'.result = "True"
          /\ ~lastCall'.commit
          /\ ~lastCall'.push
          /\ commits' = commits
          /\ head' = head
          /\ remote' = remote
      ]_vars

\* The same content is committed a second time: one commit exists.
C15_Witness ==
    /\ lastCall.op = "commit_and_push"
    /\ lastCall.staged
    /\ lastCall.result = "True"
    /\ ~lastCall.commit
    /\ Len(commitCalls) = 2
    /\ commitCalls[1].result
    /\ commits = 1
    /\ head["a.py"] = Stamp(ObjText)


(***************************************************************************)
(* Properties of the functions, checked under FnSpec.                      *)
(***************************************************************************)
\* auto_truncate_contexts has returned.
Truncated == fnCall.fn = "auto_truncate_contexts" /\ fnResult.done

\* C16: whatever the contexts and the budget, the contexts that
\* auto_truncate_contexts returns have a combined estimated token count that
\* does not exceed the budget.
C16_BudgetConformance ==
    Truncated => total_tokens(fnResult.value) <= fnCall.max_tokens

\* Only the first text context is given, and its estimate exceeds the budget.
SingleOversizedContext ==
    /\ fnCall.contexts.plan = Text(0)
    /\ fnCall.contexts.exploration_log = <<>>
    /\ fnCall.contexts.file_content = <<>>
    /\ fnCall.contexts.issue.len \div 4 > fnCall.max_tokens

\* C17: a single text context whose estimate exceeds the budget comes back
\* with an estimate within the budget and ends with a marker that states its
\* original length.
C17_SingleContext ==
    (Truncated /\ SingleOversizedContext) =>
        /\ fnResult.value.issue.len \div 4 <= fnCall.max_tokens
        /\ fnResult.value.issue.orig = fnCall.contexts.issue.len

\* self_review_changes has returned its verdict on fnCall.review_result.
Reviewed == fnCall.fn = "self_review_changes" /\ fnResult.done

\* The text has the word w, letter for letter.
HasWord(w) ==
    \E i \in 1..Len(fnCall.review_result) : fnCall.review_result[i] = w

HasLiteralRejected == HasWord("REJECTED")

HasLiteralApproved == HasWord("APPROVED") \/ HasWord("APPROVED_WITH_NOTES")

\* The text has the marker in some letter case.
HasRejected == HasLiteralRejected \/ HasWord("Rejected")

HasApproved == HasLiteralApproved \/ HasWord("approved")

\* C18 as stated, the markers read letter for letter: the verdict is
\* Rejected when the text contains REJECTED, Approved when it contains
\* APPROVED and not REJECTED, Approved when it contains neither.
C18_LiteralMarkers ==
    Reviewed =>
        /\ fnResult.value \in BOOLEAN
        /\ HasLiteralRejected => ~fnResult.value
        /\ (HasLiteralApproved /\ ~HasLiteralRejected) => fnResult.value
        /\ (~HasLiteralApproved /\ ~HasLiteralRejected) => fnResult.value

\* C18: the verdict is Rejected when the text contains REJECTED in any letter
\* case (even if it also contains APPROVED), Approved when it contains
\* APPROVED in any letter case and REJECTED in none, Approved when it
\* contains neither; it is never anything but pass or reject.
C18_MarkersInAnyCase ==
    Reviewed =>
        /\ fnResult.value \in BOOLEAN
        /\ HasRejected => ~fnResult.value
        /\ (HasApproved /\ ~HasRejected) => fnResult.value
        /\ (~HasApproved /\ ~HasRejected) => fnResult.value

\* "APPROVED ... Rejected ..." is rejected.
C18_Witness ==
    /\ Reviewed
    /\ fnCall.review_result = <<"APPROVED", "Rejected">>
    /\ fnResult.value = FALSE


\* The Runs in which the tests never finished: the docker executable is
\* missing, or the wall-clock timeout expired.
SandboxFailures == {"Docker not found", "Timeout"}

LogKind(log) == IF "kind" \in DOMAIN log THEN log.kind ELSE "none"

\* C19: a Run in which the docker executable is missing or the timeout
\* expires returns passed = False with a log, and main goes on to a repair
\* round over the plan: it neither crashes nor exits on that Run.
C19_SandboxFailureIsFailedRun ==
    [][(testRuns' = testRuns + 1 /\ LogKind(test_log') \in SandboxFailures) =>
         /\ ~test_passed'
         /\ test_log' # NoFeedback
         /\ pc' = "repair_read"
         /\ genMode' = "repair"
         /\ fileIdx' = 1
         /\ outcome' = outcome]_vars

\* A timeout in the second Run, the repair round it opened under way.
C19_Witness ==
    /\ pc = "repair_read"
    /\ genMode = "repair"
    /\ testRuns = 2
    /\ LogKind(test_log) = "Timeout"
    /\ ~test_passed


\* A commit_and_push call of main, and the calls of the review phase.
CommitStep == Len(commitCalls') = Len(commitCalls) + 1

ReviewCommits == {"review approved", "review concerns noted"}

ReviewCommitStep == CommitStep /\ commitCalls'[Len(commitCalls')].phase \in ReviewCommits

\* C20: main calls commit_and_push only after a review verdict or after a
\* repair round.  In the review phase the call follows a review directly:
\* the last verdict is Approved, or it is Rejected and review_iteration has
\* reached MAX_REVIEW_ITERATIONS; the call stages, for every file of the
\* plan, the content that review examined, and the working tree has not
\* changed since that review.
C20_CommitsAtCheckpoints ==
    [][(CommitStep =>
          /\ pc \in {"commit_approved", "commit_concerns", "repair_commit"}
          /\ (pc = "repair_commit") = (genMode = "repair")
          /\ commitCalls'[Len(commitCalls')].phase = "repair" <=> pc = "repair_commit")
       /\ (ReviewCommitStep =>
          /\ reviewLog # <<>>
          /\ review_approved = reviewLog[Len(reviewLog)]
          /\ ~review_approved => review_iteration >= MAX_REVIEW_ITERATIONS
          /\ \A p \in Range(all_files) : staged'[p] = reviewed[p]
          /\ \A p \in Paths \ Range(all_files) : staged'[p] = Stamp(Absent)
          /\ reviewed = PlanStamps
          /\ tree' = tree)]_vars

\* The commit after the third rejection: it staged what the third review
\* examined.
C20_Witness ==
    /\ pc = "progress_concerns"
    /\ reviewLog = <<FALSE, FALSE, FALSE>>
    /\ Len(commitCalls) = 1
    /\ commitCalls[1].phase = "review concerns noted"
    /\ staged = reviewed
    /\ Len(all_files) = 2


\* The input errors: an empty issue number, a path that is not a git
\* repository, an issue number that is not a number, an issue gh cannot fetch.
InputError ==
    \/ github_issue_number = ""
    \/ outcome = "not a valid git repository"
    \/ issue_data = "None"

\* The repository, the remote and the PR are as they were when the run
\* started, and no oracle was called.
NoSideEffect ==
    /\ branch = "none"
    /\ tree = [p \in Paths |-> IF p \in PyPaths THEN Original ELSE Absent]
    /\ head = [p \in Paths |-> IF p \in PyPaths THEN Stamp(Original) ELSE Stamp(Absent)]
    /\ remote = [p \in Paths |-> Stamp(Absent)]
    /\ ~branchPushed
    /\ commitCalls = <<>>
    /\ commits = 0
    /\ ~prOpen
    /\ pr_number = 0
    /\ prComments = 0
    /\ \A stage \in Stages : llmCalls[stage] = 0
    /\ gen = 0

\* C21: after an input error the run has ended with sys.exit(1), and no
\* branch was created or checked out, no file written, nothing committed or
\* pushed, no PR created.
C21_InputErrorsAbortFirst ==
    InputError => (pc = "exit1" /\ NoSideEffect)

\* A word for an issue number: get_issue_body returned None without running
\* gh, and the run ended.
C21_Witness ==
    /\ github_issue_number = "abc"
    /\ issue_data = "None"
    /\ outcome = "Invalid issue number"
    /\ pc = "exit1"
    /\ NoSideEffect


RelevantReturned == fnCall.fn = "get_relevant_files" /\ fnResult.done

\* The results get_relevant_files asked the backend for.
Asked == semantic_search(fnCall.backend, fnCall.max_files * 3)

\* The relevance distance of a path: that of its first result, 0 when the
\* backend gave no distances.
FirstDistance(path) ==
    LET i == CHOOSE k \in 1..Len(Asked) :
                 /\ Asked[k].file_path = path
                 /\ \A l \in 1..(k - 1) : Asked[l].file_path # path
    IN  IF Asked[i].none THEN 0 ELSE Asked[i].distance

Parsed == fnCall.fn = "plan_changes" /\ fnResult.done

ModifyLine(line) ==
    Len(line) >= 1 /\ Head(line) \in {"MODIFY:", "FILE:"}

CreateLine(line) == Len(line) >= 1 /\ Head(line) = "CREATE:"

Candidates == {<<fnCall.file_list[i]>> : i \in 1..Len(fnCall.file_list)}

\* C29: a path is in the modify set exactly when a line that starts with
\* MODIFY: or FILE: names it and it is in the candidate file list; a path is
\* in the create set exactly when a line that starts with CREATE: names it,
\* in the candidate list or not; no other line adds anything.
C29_PrefixesAndCandidates ==
    Parsed =>
        LET plan == fnResult.value[1]
            response == fnCall.response
        IN  /\ \A path \in Range(plan.modify) :
                  /\ path \in Candidates
                  /\ \E i \in 1..Len(response) :
                        ModifyLine(response[i]) /\ NamedPath(response[i]) = path
            /\ \A i \in 1..Len(response) :
                  (ModifyLine(response[i]) /\ NamedPath(response[i]) \in Candidates) =>
                      NamedPath(response[i]) \in Range(plan.modify)
            /\ \A path \in Range(plan.create) :
                  \E i \in 1..Len(response) :
                      CreateLine(response[i]) /\ NamedPath(response[i]) = path
            /\ \A i \in 1..Len(response) :
                  CreateLine(response[i]) => NamedPath(response[i]) \in Range(plan.create)

\* "MODIFY: n.md" names no candidate and is dropped, "FILE: 'a.py'" is taken
\* as a.py, "CREATE: n.md" is taken as it is.
C29_Witness ==
    /\ Parsed
    /\ fnCall.response = <<<<"MODIFY:", "n.md">>, <<"FILE:", "'a.py'">>, <<"CREATE:", "n.md">>>>
    /\ fnResult.value[1].modify = <<<<"a.py">>>>
    /\ fnResult.value[1].create = <<<<"n.md">>>>

\* The lines in front of the first line that starts with a prefix, as a
\* text.
RecognisedLine(line) == ModifyLine(line) \/ CreateLine(line)

BeforeFirstRecognisedLine(response) ==
    IF \E i \in 1..Len(response) : RecognisedLine(response[i])
    THEN LET i == CHOOSE k \in 1..Len(response) :
                      /\ RecognisedLine(response[k])
                      /\ \A l \in 1..(k - 1) : ~RecognisedLine(response[l])
         IN  Strip(JoinLines(SubSeq(response, 1, i - 1)))
    ELSE Strip(JoinLines(response))

\* C30: the rationale is the part of the response in front of the first
\* line that starts with MODIFY:, CREATE: or FILE:; a heading such as
\* "FILES TO MODIFY:" does not end it.
C30_RationaleUpToFirstLine ==
    Parsed =>
        fnResult.value[1].reasoning = BeforeFirstRecognisedLine(fnCall.response)


\* An oracle call of the generation stage is about to be made after a
\* failed attempt.
Retrying == pc = "generate" /\ attempt >= 1

\* C24: in apply_fix and in create_new_file, the prompt of the attempt that
\* follows a failed syntax check shows the error message of that failed
\* attempt, and of no earlier one.
C24_SyntaxErrorInNextPrompt ==
    Retrying =>
        /\ Prompt.syntax_errors # <<>>
        /\ \A i \in 1..Len(Prompt.syntax_errors) :
              Prompt.syntax_errors[i] = ErrorMsg(genLog[attempt])


\* A generation call of a review iteration that follows a rejection.
RegeneratingAfterRejection ==
    /\ pc = "generate"
    /\ genMode = "review"
    /\ reviewLog # <<>>

\* C25: in the iteration that follows a Rejected verdict the generation
\* stage is invoked for the files of the plan one after the other, files to
\* modify and files to create, and every one of these calls receives the
\* feedback text of that verdict.
C25_FeedbackToEveryFile ==
    /\ RegeneratingAfterRejection =>
          /\ ~reviewLog[Len(reviewLog)]
          /\ GenerationCall.review_feedback = Feedback(Len(reviewLog))
          /\ Prompt.review_feedback = Feedback(Len(reviewLog))
    /\ (pc = "review" /\ reviewLog # <<>>) =>
          \A p \in Range(all_files) : Stamp(tree[p]) > gen - Len(all_files)


\* A generation call of a repair round.
Repairing == pc = "generate" /\ genMode = "repair"

C27_LastRoundIsTested ==
    /\ [][(pc' = "test_done" /\ pc # "test_done") => pc = "run_tests"]_vars
    /\ [](pc = "test_done" => testRuns = repairRounds + 1)

\* C28: when the PR is finalized, commit_and_push has been called with
\* every file of the plan in the content the working tree holds, and that
\* content is in HEAD and on the remote branch.
C28_NothingLeftUncommitted ==
    (pc = "done" /\ ~is_wip) =>
        \A p \in Range(all_files) :
            /\ staged[p] = Stamp(tree[p])
            /\ head[p] = Stamp(tree[p])
            /\ remote[p] = Stamp(tree[p])


\* The least distance among the results of a path, 0 when the backend gave
\* no distances.
MinDistance(path) ==
    LET ds == {IF Asked[k].none THEN 0 ELSE Asked[k].distance :
                  k \in {l \in 1..Len(Asked) : Asked[l].file_path = path}}
    IN  CHOOSE d \in ds : \A e \in ds : d <= e

\* C31: the distance by which a file is ranked is the least distance among
\* its returned chunks, in whatever order the backend returns them: the
\* distance recorded for a path is that minimum, and the returned paths are
\* in non-decreasing order of it.
C31_RankedByMinimum ==
    RelevantReturned =>
        LET files == fnResult.value
        IN  /\ \A i \in 1..Len(files) : FirstDistance(files[i]) = MinDistance(files[i])
            /\ \A i \in 1..(Len(files) - 1) :
                  MinDistance(files[i]) <= MinDistance(files[i + 1])


Chunked == fnCall.fn = "_chunk_code" /\ fnResult.done

\* The lines of a chunk, and the chunk without the last of them.
ChunkLines(chunk) == SplitLines(chunk.content)

WithoutLastLine(chunk) ==
    JoinLines(SubSeq(ChunkLines(chunk), 1, Len(ChunkLines(chunk)) - 1))

PartitionsLines ==
    LET chunks == fnResult.value
        lines == SplitLines(fnCall.code)
    IN  /\ chunks # <<>>
        /\ chunks[1].start_line = 1
        /\ \A k \in 1..(Len(chunks) - 1) :
              chunks[k + 1].start_line = chunks[k].end_line + 1
        /\ chunks[Len(chunks)].end_line = Len(lines)
        /\ \A k \in 1..Len(chunks) : chunks[k].start_line <= chunks[k].end_line
        /\ JoinLines([k \in 1..Len(chunks) |-> chunks[k].content]) = fnCall.code

\* C38 as stated: for any text and any chunk_size the chunks partition the
\* lines of the text: the first starts at line 1, each next one starts at
\* the line after the end of the one before, the last ends at the last line,
\* no chunk starts after its end, and the contents joined by line breaks are
\* the text.
C38_ChunksPartitionTheLines == Chunked => PartitionsLines

\* C38 amended: the same for any text and any chunk_size that is not
\* negative.  With a negative chunk_size the empty chunk left after a split
\* before the first definition of a Python file is itself "too large" and
\* is emitted, starting after its end.
C38_ChunksPartitionTheLinesOfASize ==
    Chunked /\ fnCall.chunk_size >= 0 => PartitionsLines

\* A Python file split before its first definition, at the definition and
\* at the end.
C38_Witness ==
    /\ Chunked
    /\ fnCall.python
    /\ fnCall.chunk_size = 9
    /\ fnCall.code = JoinLines(<<<<"import os">>, <<>>, <<"def f():">>, <<"    return 1">>>>)
    /\ fnResult.value =
          <<[content |-> <<"import os">>, start_line |-> 1, end_line |-> 1],
            [content |-> <<>>, start_line |-> 2, end_line |-> 2],
            [content |-> <<"def f():", NewLine, "    return 1">>,
             start_line |-> 3, end_line |-> 4]>>


\* A commit_and_push call that created the commit and whose push raised.
PushFailedAfterCommit(call) ==
    call.op = "commit_and_push" /\ call.commit /\ call.result = "False"

\* C33: when the push fails after the commit was created, commit_and_push
\* returns False and does not raise, the commit is in the history (HEAD is
\* what was staged) and the working tree is as it was; and a commit_and_push
\* call right after it that returns True has published the commit: the
\* remote branch is at HEAD.
C33_PushCanBeRetried ==
    [][/\ PushFailedAfterCommit(lastCall') =>
            /\ lastCall'.result # "raised"
            /\ commits' = commits + 1
            /\ \A p \in Paths : staged'[p] # Stamp(Absent) => head'[p] = staged'[p]
            /\ tree' = tree
       /\ (/\ PushFailedAfterCommit(lastCall)
           /\ lastCall'.op = "commit_and_push"
           /\ lastCall'.result = "True") => remote' = head']_vars


\* C34: the run announces 'SUCCESS! Pull request finalized.' only if
\* finalize_pr returned True, which is when the PR has left the WIP state;
\* when finalize_pr returned False, for a failed edit or for want of a PR
\* number, the run reports that the PR remains in WIP state.
C34_SuccessOnlyWhenFinalized ==
    [][pc = "finalize_pr" /\ pc' = "done" =>
         /\ outcome' = "SUCCESS! Pull request finalized." => ~is_wip'
         /\ is_wip' => outcome' = "PR remains in WIP state"]_vars


\* C35: whenever create_wip_pr returns True, pr_number is set, so that the
\* update_progress and finalize_pr calls after it find the PR.
C35_OpenedPrHasNumber ==
    [][lastCall'.op = "create_wip_pr" /\ lastCall'.result = "True" =>
         ~PrNumberMissing(pr_number')]_vars


\* files_to_modify + files_to_create, the list whose every element a review
\* round and a repair round generate (agent.py 804-805, 874-875).
PlannedFiles(r) == r.modify \o r.create

\* C36: plan_changes returns no path in both the modify list and the create
\* list and repeats no path within a list: in files_to_modify +
\* files_to_create every path stands once, so a round generates it once.
C36_EachPathPlannedOnce ==
    Parsed =>
        \A k \in 1..2 :
            LET planned == PlannedFiles(fnResult.value[k])
            IN  \A i, l \in 1..Len(planned) : planned[i] = planned[l] => i = l


Summarized == fnCall.fn = "summarize_exploration_log" /\ fnResult.done

\* The estimate summarize_exploration_log takes of a log.
LogTokens(exploration_log) == EstimateLen(JoinLen(exploration_log))

\* C37: summarize_exploration_log returns a log with no more entries and no
\* larger estimated token count than its input: a log within its budget is
\* returned as it is, and of a log over its budget one placeholder and the
\* last three entries are returned.
C37_SummaryNeverGrows ==
    Summarized =>
        LET log == fnCall.exploration_log
            summary == fnResult.value
        IN  /\ Len(summary) <= Len(log)
            /\ LogTokens(summary) <= LogTokens(log)
            /\ IF LogTokens(log) <= token_budget(fnCall.max_tokens).exploration_log
               THEN summary = log
               ELSE /\ Len(summary) = 4
                    /\ SubSeq(summary, 2, 4) = SubSeq(log, Len(log) - 2, Len(log))


\* The oracle calls of the stages that call it once.
StageCalls ==
    llmCalls["analyze"] + llmCalls["plan"] + llmCalls["review"] + llmCalls["pr_content"]

\* The oracle calls of the generation stage so far, at most: attempt counts
\* those of the invocation in work, and each of the gen - 1 invocations
\* before it made GEN_ATTEMPTS calls or fewer.
GenerationCallsAtMost ==
    IF gen = 0 THEN 0 ELSE GEN_ATTEMPTS * (gen - 1) + attempt

OracleCallBound(n) ==
    2 + MAX_REVIEW_ITERATIONS * (GEN_ATTEMPTS * n + 1) + max_repairs * GEN_ATTEMPTS * n + 1

\* C39: for a plan of N files a run issues at most
\* 2 + MAX_REVIEW_ITERATIONS * (3N + 1) + max_repairs * 3N + 1 oracle calls:
\* no invocation of the generation stage makes more than three, and the
\* calls of the stages and of the invocations so far stay within the bound.
C39_OracleCallsBounded ==
    /\ attempt <= GEN_ATTEMPTS
    /\ StageCalls + GenerationCallsAtMost <= OracleCallBound(Len(all_files))

\* A run over two files with every review round, every repair round and the
\* PR prose, whose last invocation took three attempts: the bound is met.
C39_Witness ==
    /\ pc = "done"
    /\ Len(all_files) = 2
    /\ llmCalls["review"] = MAX_REVIEW_ITERATIONS
    /\ repair_count = max_repairs
    /\ llmCalls["pr_content"] = 1
    /\ gen = (MAX_REVIEW_ITERATIONS + max_repairs) * 2
    /\ attempt = GEN_ATTEMPTS
    /\ StageCalls + GenerationCallsAtMost = OracleCallBound(2)

====
